---- MODULE Spec2Model ----
(***************************************************************************)
(* Model of two lint rules of the eslint-plugin package:                   *)
(*   - no-useless-template-literals (the template-literal simplifier), in  *)
(*     the two builds found in the sources: the rule file itself and the   *)
(*     revised visitor that processes the slots right to left;             *)
(*   - explicit-function-return-type (the return-type enforcer).           *)
(* Source text is a sequence of one-character strings; offsets are the     *)
(* 0-based offsets of the syntax tree's ranges, ranges are half-open.      *)
(***************************************************************************)
EXTENDS Integers, Sequences, FiniteSets, TLC

\* ------------------------------------------------------------------ bounds
\* Longest template literal (in characters, backticks included) that is linted.
MaxLen == 13

\* ------------------------------------------------------------ text helpers
BS == "\\"
\* the backtick character (the module's lexer has no string for it)
BT == "bt"
DOLLAR == "$"
LBRACE == "{"
RBRACE == "}"

Min(a, b) == IF a < b THEN a ELSE b
Max(a, b) == IF a > b THEN a ELSE b

\* str.slice(from, to) with 0-based, non-negative, end-exclusive bounds
slice(str, from, to) == SubSeq(str, from + 1, Min(to, Len(str)))

\* str.startsWith(ch) for a single character
startsWith(str, ch) == Len(str) > 0 /\ str[1] = ch

\* length of the maximal run of backslashes that ends just before the
\* 1-based position p of str
RECURSIVE backslashesBefore(_, _)
backslashesBefore(str, p) ==
    IF p > 1 /\ str[p - 1] = BS THEN 1 + backslashesBefore(str, p - 1) ELSE 0

\* ------------------------------------------------------------- type model
\* A type of the type service: its own flags, and for a union or an
\* intersection the flags of each member.
StringLike == {"String", "StringLiteral", "TemplateLiteral", "StringMapping"}

PlainType(flags) == [kind |-> "plain", flags |-> flags, types |-> <<>>]
UnionType(members) == [kind |-> "union", flags |-> {"Union"}, types |-> members]
IntersectionType(members) ==
    [kind |-> "intersection", flags |-> {"Intersection"}, types |-> members]

TString == PlainType({"String"})
TNumber == PlainType({"Number"})
TUndefined == PlainType({"Undefined"})
TRegExp == PlainType({"Object"})
TStringLiteral == PlainType({"StringLiteral"})
TStringOrNumber == UnionType(<<PlainType({"String"}), PlainType({"Number"})>>)
TNumberOrString == UnionType(<<PlainType({"Number"}), PlainType({"String"})>>)
TLiteralUnion ==
    UnionType(<<PlainType({"StringLiteral"}), PlainType({"StringLiteral"})>>)
TNumberUnion == UnionType(<<PlainType({"Number"}), PlainType({"Undefined"})>>)
TBrandedString ==
    IntersectionType(<<PlainType({"String"}), PlainType({"Object"})>>)
TStringBranded ==
    IntersectionType(<<PlainType({"Object"}), PlainType({"String"})>>)
TBrandedNumber ==
    IntersectionType(<<PlainType({"Number"}), PlainType({"Object"})>>)

\* The declarations of the linted file: the identifiers an interpolation may
\* name, and the type the type service reports for each.
DeclaredNames ==
    {<<"s">>, <<"n">>, <<"s", "n">>, <<"n", "s">>, <<"l", "l">>, <<"n", "m">>,
     <<"s", "b">>, <<"b", "s">>, <<"n", "b">>}

TypeOfName(name) ==
    CASE name = <<"s">> -> TString
      [] name = <<"n">> -> TNumber
      [] name = <<"s", "n">> -> TStringOrNumber
      [] name = <<"n", "s">> -> TNumberOrString
      [] name = <<"l", "l">> -> TLiteralUnion
      [] name = <<"n", "m">> -> TNumberUnion
      [] name = <<"s", "b">> -> TBrandedString
      [] name = <<"b", "s">> -> TStringBranded
      [] name = <<"n", "b">> -> TBrandedNumber
      [] name = <<"N", "a", "N">> -> TNumber
      [] name = <<"I", "n", "f", "i", "n", "i", "t", "y">> -> TNumber
      [] OTHER -> TUndefined

isTypeFlagSet(type, flagsToCheck) == (type.flags \cap flagsToCheck) # {}

getConstrainedTypeAtLocation(expression) == expression.tsType

\* ----------------------------------------------------- expression palette
\* An expression as written in an interpolation slot, before it is placed
\* in a source text (Parse gives it its range).
Expr(type, name, src, valueType, strValue, quasis, tsType) ==
    [type |-> type, name |-> name, src |-> src, valueType |-> valueType,
     strValue |-> strValue, quasis |-> quasis, tsType |-> tsType,
     range |-> <<0, 0>>]

\* an identifier; its name is kept as the characters of its source text
Identifier(src) ==
    Expr("Identifier", src, src, "none", <<>>, <<>>, TypeOfName(src))

NameNaN == <<"N", "a", "N">>
NameInfinity == <<"I", "n", "f", "i", "n", "i", "t", "y">>
NameUndefined == <<"u", "n", "d", "e", "f", "i", "n", "e", "d">>

\* a string literal '...' with the given raw content between the quotes
StringLiteral(content) ==
    Expr("Literal", <<>>, <<"'">> \o content \o <<"'">>, "string", content,
         <<>>, TStringLiteral)

\* a number or regular-expression literal: String(value) is strValue
OtherLiteral(src, valueType, strValue, tsType) ==
    Expr("Literal", <<>>, src, valueType, strValue, <<>>, tsType)

\* a nested template literal with the given quasis; its own slots hold `n`
RECURSIVE NestedText(_, _)
NestedText(quasis, i) ==
    IF i = Len(quasis)
    THEN quasis[i] \o <<BT>>
    ELSE quasis[i] \o <<DOLLAR, LBRACE, "n", RBRACE>> \o NestedText(quasis, i + 1)

NestedTemplate(quasis) ==
    Expr("TemplateLiteral", <<>>, <<BT>> \o NestedText(quasis, 1), "none", <<>>,
         quasis, TString)

StringContents ==
    {<<>>, <<"a">>, <<DOLLAR>>, <<LBRACE>>, <<BT>>, <<BS, BT>>, <<BS, BS, BT>>,
     <<DOLLAR, LBRACE>>, <<BS, DOLLAR>>, <<LBRACE, "1", RBRACE>>}

NestedQuasis ==
    {<<<<>>>>, <<<<"a">>>>, <<<<DOLLAR>>>>, <<<<LBRACE>>>>, <<<<BS, DOLLAR>>>>,
     <<<<>>, <<>>>>, <<<<LBRACE>>, <<>>>>, <<<<>>, <<DOLLAR>>>>}

Expressions ==
    {Identifier(name) : name \in DeclaredNames}
    \cup {Expr("CallExpression", <<>>, <<"f", "(", ")">>, "none", <<>>, <<>>, TString)}
    \cup {Identifier(NameNaN), Identifier(NameInfinity), Identifier(NameUndefined)}
    \cup {StringLiteral(c) : c \in StringContents}
    \cup {OtherLiteral(<<"1">>, "number", <<"1">>, TNumber),
          OtherLiteral(<<"/", BS, BS, "/">>, "object", <<"/", BS, BS, "/">>, TRegExp),
          OtherLiteral(<<"/", BS, BT, "/">>, "object", <<"/", BS, BT, "/">>, TRegExp)}
    \cup {NestedTemplate(q) : q \in NestedQuasis}

\* the static text segments a template literal may have between its slots
QuasiRaws == {<<>>, <<"a">>, <<DOLLAR>>, <<LBRACE>>, <<BS, DOLLAR>>}

\* whitespace written between `${` and the expression (and before `}`)
Paddings == {0, 1}

\* ------------------------------------------------------- the tree supplier
\* A slot is an expression with the whitespace written around it:
\* ${ expr }.  A template literal is given by its quasi texts qs and its
\* slots ss, Len(qs) = Len(ss) + 1.
Spaces(n) == [i \in 1..n |-> " "]

SlotText(slot) ==
    <<DOLLAR, LBRACE>> \o Spaces(slot.pad) \o slot.expr.src \o Spaces(slot.pad)
        \o <<RBRACE>>

RECURSIVE TemplateBody(_, _, _)
TemplateBody(qs, ss, i) ==
    IF i > Len(ss)
    THEN qs[i]
    ELSE qs[i] \o SlotText(ss[i]) \o TemplateBody(qs, ss, i + 1)

TemplateText(qs, ss) == <<BT>> \o TemplateBody(qs, ss, 1) \o <<BT>>

\* offset of the first character of the raw text of quasi i, the template
\* literal starting at offset base
RECURSIVE RawStart(_, _, _, _)
RawStart(base, qs, ss, i) ==
    IF i = 1
    THEN base + 1
    ELSE RawStart(base, qs, ss, i - 1) + Len(qs[i - 1]) + Len(SlotText(ss[i - 1]))

\* A template element spans from the delimiter before its text (the
\* backtick or `}`) to the end of the delimiter after it (`${` or the
\* backtick).
QuasiNode(base, qs, ss, i) ==
    LET start == RawStart(base, qs, ss, i)
        tail == i = Len(qs)
    IN  [value |-> [raw |-> qs[i]], tail |-> tail,
         range |-> <<start - 1, start + Len(qs[i]) + (IF tail THEN 1 ELSE 2)>>]

ExpressionNode(base, qs, ss, i) ==
    LET start == RawStart(base, qs, ss, i) + Len(qs[i]) + 2 + ss[i].pad
    IN  [ss[i].expr EXCEPT !.range = <<start, start + Len(ss[i].expr.src)>>]

\* the TemplateLiteral node the parser hands to the rule
Parse(parentType, base, qs, ss) ==
    [type |-> "TemplateLiteral",
     parent |-> [type |-> parentType],
     range |-> <<base, base + Len(TemplateText(qs, ss))>>,
     quasis |-> [i \in 1..Len(qs) |-> QuasiNode(base, qs, ss, i)],
     expressions |-> [i \in 1..Len(ss) |-> ExpressionNode(base, qs, ss, i)]]

\* the text of the linted file: one character, then the template literal
SourceOf(parentType, qs, ss) ==
    <<IF parentType = "TaggedTemplateExpression" THEN "t" ELSE "=">>
        \o TemplateText(qs, ss)

\* ------------------------------------------------------ the fix edit model
removeRange(range) == [range |-> range, text |-> <<>>]
replaceText(n, text) == [range |-> n.range, text |-> text]
replaceTextRange(range, text) == [range |-> range, text |-> text]

Report(target, fixEdits) ==
    [node |-> target, messageId |-> "noUselessTemplateLiteral", fix |-> fixEdits]

\* ------------------------------------------------ node predicates (rule A)
\* (mutant) the quantifiers swapped: some member of a union, every member
\* of an intersection
isUnderlyingTypeStringSwapped(expression) ==
    LET type == getConstrainedTypeAtLocation(expression)
        isString(t) == isTypeFlagSet(t, StringLike)
    IN  IF type.kind = "union"
        THEN \E i \in 1..Len(type.types) : isString(type.types[i])
        ELSE IF type.kind = "intersection"
        THEN \A i \in 1..Len(type.types) : isString(type.types[i])
        ELSE isString(type)

isUnderlyingTypeString(expression) ==
    LET type == getConstrainedTypeAtLocation(expression)
        isString(t) == isTypeFlagSet(t, StringLike)
    IN  IF type.kind = "union"
        THEN \A i \in 1..Len(type.types) : isString(type.types[i])
        ELSE IF type.kind = "intersection"
        THEN \E i \in 1..Len(type.types) : isString(type.types[i])
        ELSE isString(type)

isLiteral(expression) == expression.type = "Literal"

isTemplateLiteral(expression) == expression.type = "TemplateLiteral"

isUndefinedIdentifier(expression) ==
    expression.type = "Identifier" /\ expression.name = NameUndefined

isInfinityIdentifier(expression) ==
    expression.type = "Identifier" /\ expression.name = NameInfinity

isNaNIdentifier(expression) ==
    expression.type = "Identifier" /\ expression.name = NameNaN

\* (mutant) the filter without the NaN identifier
isFixableExpressionExceptNaN(expression) ==
    \/ isLiteral(expression)
    \/ isTemplateLiteral(expression)
    \/ isUndefinedIdentifier(expression)
    \/ isInfinityIdentifier(expression)

isFixableExpression(expression) ==
    \/ isLiteral(expression)
    \/ isTemplateLiteral(expression)
    \/ isUndefinedIdentifier(expression)
    \/ isInfinityIdentifier(expression)
    \/ isNaNIdentifier(expression)

\* node.expressions.indexOf(expression), as a 1-based index
indexOf(expressions, expression) ==
    CHOOSE i \in 1..Len(expressions) :
        /\ expressions[i] = expression
        /\ \A j \in 1..(i - 1) : expressions[j] # expression

hasSingleStringVariable(node) ==
    /\ Len(node.quasis) = 2
    /\ node.quasis[1].value.raw = <<>>
    /\ node.quasis[2].value.raw = <<>>
    /\ Len(node.expressions) = 1
    /\ isUnderlyingTypeString(node.expressions[1])

\* (mutant) the first removal starts one character late and leaves the
\* opening backtick
singleStringVariableReportLate(node) ==
    LET prevQuasi == node.quasis[1]
        nextQuasi == node.quasis[2]
    IN  Report(node.expressions[1],
               <<removeRange(<<prevQuasi.range[2] - 2, node.expressions[1].range[1]>>),
                 removeRange(<<node.expressions[1].range[2], nextQuasi.range[1] + 2>>)>>)

\* (mutant) the report targeted at the template literal
singleStringVariableReportAtTemplate(node) ==
    LET prevQuasi == node.quasis[1]
        nextQuasi == node.quasis[2]
    IN  Report(node,
               <<removeRange(<<prevQuasi.range[2] - 3, node.expressions[1].range[1]>>),
                 removeRange(<<node.expressions[1].range[2], nextQuasi.range[1] + 2>>)>>)

\* (mutant) the two removals returned in the opposite order
singleStringVariableReportSwapped(node) ==
    LET prevQuasi == node.quasis[1]
        nextQuasi == node.quasis[2]
    IN  Report(node.expressions[1],
               <<removeRange(<<node.expressions[1].range[2], nextQuasi.range[1] + 2>>),
                 removeRange(<<prevQuasi.range[2] - 3, node.expressions[1].range[1]>>)>>)

\* the report of the special case: one string-like expression between two
\* empty quasis
singleStringVariableReport(node) ==
    LET prevQuasi == node.quasis[1]
        nextQuasi == node.quasis[2]
    IN  Report(node.expressions[1],
               <<removeRange(<<prevQuasi.range[2] - 3, node.expressions[1].range[1]>>),
                 removeRange(<<node.expressions[1].range[2], nextQuasi.range[1] + 2>>)>>)

\* ------------------------------------- the visitor of the rule file
\* str.replace(/([chars])/g, '\\$1'): a backslash before every character
\* of the class
RECURSIVE escapeEach(_, _)
escapeEach(str, chars) ==
    IF str = <<>>
    THEN <<>>
    ELSE (IF Head(str) \in chars THEN <<BS, Head(str)>> ELSE <<Head(str)>>)
             \o escapeEach(Tail(str), chars)

escapedValue(expression) ==
    IF expression.valueType = "string"
    THEN escapeEach(slice(expression.src, 1, Len(expression.src) - 1),
                    {BT, DOLLAR})
    ELSE escapeEach(expression.strValue, {BT, DOLLAR, BS})

\* (mutant) the second removal reaches one character into the next quasi
fixReachingOver(node, expression) ==
    LET index == indexOf(node.expressions, expression)
        prevQuasi == node.quasis[index]
        nextQuasi == node.quasis[index + 1]
        fixes == <<removeRange(<<prevQuasi.range[2] - 2, expression.range[1]>>),
                   removeRange(<<expression.range[2], nextQuasi.range[1] + 2>>)>>
    IN  IF isLiteral(expression)
        THEN Append(fixes, replaceText(expression, escapedValue(expression)))
        ELSE IF isTemplateLiteral(expression)
        THEN fixes \o
             <<removeRange(<<expression.range[1], expression.range[1] + 1>>),
               removeRange(<<expression.range[2] - 1, expression.range[2]>>)>>
        ELSE fixes

fix(node, expression) ==
    LET index == indexOf(node.expressions, expression)
        prevQuasi == node.quasis[index]
        nextQuasi == node.quasis[index + 1]
        fixes == <<removeRange(<<prevQuasi.range[2] - 2, expression.range[1]>>),
                   removeRange(<<expression.range[2], nextQuasi.range[1] + 1>>)>>
    IN  IF isLiteral(expression)
        THEN Append(fixes, replaceText(expression, escapedValue(expression)))
        ELSE IF isTemplateLiteral(expression)
        THEN fixes \o
             <<removeRange(<<expression.range[1], expression.range[1] + 1>>),
               removeRange(<<expression.range[2] - 1, expression.range[2]>>)>>
        ELSE fixes

\* (mutant) the visitor without the early return for tagged templates
TemplateLiteralUnguarded(node) ==
    IF hasSingleStringVariable(node)
    THEN <<singleStringVariableReport(node)>>
    ELSE LET fixableExpressions == SelectSeq(node.expressions, isFixableExpression)
         IN  [k \in 1..Len(fixableExpressions) |->
                 Report(fixableExpressions[k], fix(node, fixableExpressions[k]))]

\* the reports of one call of the TemplateLiteral visitor, in the order
\* they are issued
TemplateLiteral(node) ==
    IF node.parent.type = "TaggedTemplateExpression"
    THEN <<>>
    ELSE IF hasSingleStringVariable(node)
    THEN <<singleStringVariableReport(node)>>
    ELSE LET fixableExpressions == SelectSeq(node.expressions, isFixableExpression)
         IN  [k \in 1..Len(fixableExpressions) |->
                 Report(fixableExpressions[k], fix(node, fixableExpressions[k]))]

\* ------------------- the revised visitor (slots processed right to left)
reverse(seq) == [i \in 1..Len(seq) |-> seq[Len(seq) + 1 - i]]

\* /(?<!(?:[^\\]|^)(?:\\\\)*\\)/ at the 1-based position p: the run of
\* backslashes that ends just before p does not have odd length
evenNumOfBackslashesRegExp(str, p) == backslashesBefore(str, p) % 2 = 0

endsWithEscapedDollarSign(str) ==
    /\ Len(str) > 0
    /\ str[Len(str)] = DOLLAR
    /\ evenNumOfBackslashesRegExp(str, Len(str))

\* String(value).replace(/\\\\/g, '\\\\\\\\'): every pair of backslashes,
\* matched left to right, becomes four
RECURSIVE doubleBackslashPairs(_)
doubleBackslashPairs(str) ==
    IF Len(str) >= 2 /\ str[1] = BS /\ str[2] = BS
    THEN <<BS, BS, BS, BS>> \o doubleBackslashPairs(SubSeq(str, 3, Len(str)))
    ELSE IF str = <<>>
    THEN <<>>
    ELSE <<Head(str)>> \o doubleBackslashPairs(Tail(str))

\* str.replace(new RegExp(evenNumOfBackslashes + '(`|\${)', 'g'), '\\$1'),
\* scanning from the 1-based position p
RECURSIVE escapeUnescaped(_, _)
escapeUnescaped(str, p) ==
    IF p > Len(str)
    THEN <<>>
    ELSE IF evenNumOfBackslashesRegExp(str, p) /\ str[p] = BT
    THEN <<BS, BT>> \o escapeUnescaped(str, p + 1)
    ELSE IF /\ evenNumOfBackslashesRegExp(str, p)
            /\ str[p] = DOLLAR
            /\ p < Len(str)
            /\ str[p + 1] = LBRACE
    THEN <<BS, DOLLAR, LBRACE>> \o escapeUnescaped(str, p + 2)
    ELSE <<str[p]>> \o escapeUnescaped(str, p + 1)

\* escapedValue.replaceAll(/\$$/g, '\\$')
escapeTrailingDollar(str) ==
    IF Len(str) > 0 /\ str[Len(str)] = DOLLAR
    THEN SubSeq(str, 1, Len(str) - 1) \o <<BS, DOLLAR>>
    ELSE str

\* the text inlined for a literal slot, nextCharacterIsOpeningCurlyBrace
\* being the carried flag when the slot is reached
revisedEscapedValue(expression, nextCharacterIsOpeningCurlyBrace) ==
    LET value == escapeUnescaped(
                     IF expression.valueType = "string"
                     THEN slice(expression.src, 1, Len(expression.src) - 1)
                     ELSE doubleBackslashPairs(expression.strValue),
                     1)
    IN  IF nextCharacterIsOpeningCurlyBrace /\ endsWithEscapedDollarSign(value)
        THEN escapeTrailingDollar(value)
        ELSE value

\* One iteration of fixableExpressions.forEach: the report issued for the
\* expression and the value of nextCharacterIsOpeningCurlyBrace it leaves,
\* carried being the value the previous iteration left.
processFixable(node, expression, carried) ==
    LET index == indexOf(node.expressions, expression)
        prevQuasi == node.quasis[index]
        nextQuasi == node.quasis[index + 1]
        flag1 == IF Len(nextQuasi.value.raw) # 0
                 THEN startsWith(nextQuasi.value.raw, LBRACE)
                 ELSE carried
        value == revisedEscapedValue(expression, flag1)
        lastQuasi == expression.quasis[Len(expression.quasis)]
        flag2 == IF isLiteral(expression)
                 THEN IF Len(value) # 0 THEN startsWith(value, LBRACE) ELSE flag1
                 ELSE IF isTemplateLiteral(expression)
                 THEN IF Len(expression.quasis) = 1 /\ Len(expression.quasis[1]) # 0
                      THEN startsWith(expression.quasis[1], LBRACE)
                      ELSE flag1
                 ELSE FALSE
        fixers1 == IF isLiteral(expression)
                   THEN <<replaceText(expression, value)>>
                   ELSE IF isTemplateLiteral(expression)
                   THEN (IF flag1 /\ endsWithEscapedDollarSign(lastQuasi)
                         THEN <<replaceTextRange(<<expression.range[2] - 2,
                                                   expression.range[2] - 2>>, <<BS>>)>>
                         ELSE <<>>)
                        \o <<removeRange(<<expression.range[1], expression.range[1] + 1>>),
                             removeRange(<<expression.range[2] - 1, expression.range[2]>>)>>
                   ELSE <<>>
        fixers2 == IF flag2 /\ endsWithEscapedDollarSign(prevQuasi.value.raw)
                   THEN <<replaceTextRange(<<prevQuasi.range[2] - 3,
                                             prevQuasi.range[2] - 2>>, <<BS, DOLLAR>>)>>
                   ELSE <<>>
    IN  [report |->
             Report(expression,
                    <<removeRange(<<prevQuasi.range[2] - 2, expression.range[1]>>),
                      removeRange(<<expression.range[2], nextQuasi.range[1] + 1>>)>>
                        \o fixers1 \o fixers2),
         decidedWith |-> flag1,
         nextCharacterIsOpeningCurlyBrace |-> flag2]

\* fixableExpressions.forEach over the list from its k-th element on
RECURSIVE forEachFixable(_, _, _, _)
forEachFixable(node, fixableExpressions, k, carried) ==
    IF k > Len(fixableExpressions)
    THEN <<>>
    ELSE LET step == processFixable(node, fixableExpressions[k], carried)
         IN  <<step.report>>
                 \o forEachFixable(node, fixableExpressions, k + 1,
                                   step.nextCharacterIsOpeningCurlyBrace)

\* the reports of one call of the revised TemplateLiteral visitor, in the
\* order they are issued
TemplateLiteralRevised(node) ==
    IF node.parent.type = "TaggedTemplateExpression"
    THEN <<>>
    ELSE IF hasSingleStringVariable(node)
    THEN <<singleStringVariableReport(node)>>
    ELSE forEachFixable(node,
                        reverse(SelectSeq(node.expressions, isFixableExpression)),
                        1, FALSE)

\* the values of nextCharacterIsOpeningCurlyBrace the iterations of
\* fixableExpressions.forEach tested when they decided the escaping of a
\* literal's or a nested template's trailing `$`, from the k-th element on
RECURSIVE forEachDecision(_, _, _, _)
forEachDecision(node, fixableExpressions, k, carried) ==
    IF k > Len(fixableExpressions)
    THEN <<>>
    ELSE LET expression == fixableExpressions[k]
             step == processFixable(node, expression, carried)
         IN  (IF isLiteral(expression) \/ isTemplateLiteral(expression)
              THEN <<[slot |-> indexOf(node.expressions, expression),
                      flag |-> step.decidedWith]>>
              ELSE <<>>)
                 \o forEachDecision(node, fixableExpressions, k + 1,
                                    step.nextCharacterIsOpeningCurlyBrace)

decisionsRevised(node) ==
    IF node.parent.type = "TaggedTemplateExpression" \/ hasSingleStringVariable(node)
    THEN <<>>
    ELSE forEachDecision(node,
                         reverse(SelectSeq(node.expressions, isFixableExpression)),
                         1, FALSE)

\* ------------------------------------------- the tree supplier, from text
\* Reading a template literal back from a text: the quasis end at a
\* backtick or a `${` that no backslash escapes; a slot holds one of the
\* expressions of the palette, with spaces around it, up to its `}`.
RECURSIVE skipSpaces(_, _)
skipSpaces(text, pos) ==
    IF pos < Len(text) /\ text[pos + 1] = " " THEN skipSpaces(text, pos + 1) ELSE pos

startsWithAt(text, pos, pattern) ==
    /\ pos + Len(pattern) <= Len(text)
    /\ SubSeq(text, pos + 1, pos + Len(pattern)) = pattern

expressionsAt(text, pos) ==
    {e \in Expressions :
        /\ startsWithAt(text, pos, e.src)
        /\ LET close == skipSpaces(text, pos + Len(e.src))
           IN  close < Len(text) /\ text[close + 1] = RBRACE}

ParseError == [ok |-> FALSE]

\* pos: the offset being read; rawStart: where the current quasi's text
\* began; quasis, expressions: the children read so far
RECURSIVE parseFrom(_, _, _, _, _)
parseFrom(text, pos, rawStart, quasis, expressions) ==
    IF pos >= Len(text)
    THEN ParseError
    ELSE IF text[pos + 1] = BS
    THEN parseFrom(text, pos + 2, rawStart, quasis, expressions)
    ELSE IF text[pos + 1] = BT
    THEN [ok |-> TRUE,
          end |-> pos + 1,
          quasis |-> Append(quasis,
                            [value |-> [raw |-> SubSeq(text, rawStart + 1, pos)],
                             tail |-> TRUE,
                             range |-> <<rawStart - 1, pos + 1>>]),
          expressions |-> expressions]
    ELSE IF text[pos + 1] = DOLLAR /\ pos + 1 < Len(text) /\ text[pos + 2] = LBRACE
    THEN LET start == skipSpaces(text, pos + 2)
             found == expressionsAt(text, start)
         IN  IF found = {}
             THEN ParseError
             ELSE LET e == CHOOSE e \in found : TRUE
                      close == skipSpaces(text, start + Len(e.src))
                  IN  parseFrom(text, close + 1, close + 1,
                                Append(quasis,
                                       [value |-> [raw |-> SubSeq(text, rawStart + 1, pos)],
                                        tail |-> FALSE,
                                        range |-> <<rawStart - 1, pos + 2>>]),
                                Append(expressions,
                                       [e EXCEPT !.range = <<start, start + Len(e.src)>>]))
    ELSE parseFrom(text, pos + 1, rawStart, quasis, expressions)

\* The template literal that starts at offset base of the text and ends
\* with the text: its node, or a parse error.
parseTemplate(parentType, text, base) ==
    LET read == parseFrom(text, base + 1, base + 1, <<>>, <<>>)
    IN  IF ~read.ok \/ read.end # Len(text)
        THEN ParseError
        ELSE [ok |-> TRUE,
              node |-> [type |-> "TemplateLiteral",
                        parent |-> [type |-> parentType],
                        range |-> <<base, read.end>>,
                        quasis |-> read.quasis,
                        expressions |-> read.expressions]]

\* --------------------------------------------------- applying fix edits
\* The host applies the edits of a pass together, against the original
\* text.  Each character of the result keeps where it came from: quasi i
\* of the template is piece 2i - 1, slot i (its delimiters included) is
\* piece 2i, anything else is piece 0; text put in by an edit belongs to
\* the piece of the character at the start of the edit's range.
pieceAt(node, pos) ==
    IF \E i \in 1..Len(node.quasis) :
           /\ node.quasis[i].range[1] + 1 <= pos
           /\ pos < node.quasis[i].range[2] - (IF node.quasis[i].tail THEN 1 ELSE 2)
    THEN 2 * (CHOOSE i \in 1..Len(node.quasis) :
                  /\ node.quasis[i].range[1] + 1 <= pos
                  /\ pos < node.quasis[i].range[2]
                             - (IF node.quasis[i].tail THEN 1 ELSE 2)) - 1
    ELSE IF \E i \in 1..Len(node.expressions) :
                /\ node.quasis[i].range[2] - 2 <= pos
                /\ pos < node.quasis[i + 1].range[1] + 1
    THEN 2 * (CHOOSE i \in 1..Len(node.expressions) :
                  /\ node.quasis[i].range[2] - 2 <= pos
                  /\ pos < node.quasis[i + 1].range[1] + 1)
    ELSE 0

tagged(text, piece) == [i \in 1..Len(text) |-> [ch |-> text[i], from |-> piece]]

chars(taggedText) == [i \in 1..Len(taggedText) |-> taggedText[i].ch]

\* all edits of a sequence of reports, in report order
RECURSIVE allEdits(_)
allEdits(rs) == IF rs = <<>> THEN <<>> ELSE Head(rs).fix \o allEdits(Tail(rs))

overlap(a, b) ==
    /\ a.range[1] < b.range[2]
    /\ b.range[1] < a.range[2]

\* the text the edits of the sequence that start at offset pos put in:
\* insertions (empty ranges) first, then the replacement
RECURSIVE textAt(_, _, _, _)
textAt(edits, pos, empties, k) ==
    IF k > Len(edits)
    THEN <<>>
    ELSE (IF /\ edits[k].range[1] = pos
             /\ (edits[k].range[2] = pos) = empties
          THEN edits[k].text
          ELSE <<>>) \o textAt(edits, pos, empties, k + 1)

RECURSIVE applyFrom(_, _, _, _)
applyFrom(node, text, edits, pos) ==
    IF pos > Len(text)
    THEN <<>>
    ELSE tagged(textAt(edits, pos, TRUE, 1) \o textAt(edits, pos, FALSE, 1),
                pieceAt(node, pos))
         \o (IF pos < Len(text)
                /\ ~\E k \in 1..Len(edits) :
                       edits[k].range[1] <= pos /\ pos < edits[k].range[2]
             THEN <<[ch |-> text[pos + 1], from |-> pieceAt(node, pos)]>>
             ELSE <<>>)
         \o applyFrom(node, text, edits, pos + 1)

applyEdits(node, text, edits) == applyFrom(node, text, edits, 0)

\* ----------------------------------------------- the linted templates
Slots == {[expr |-> e, pad |-> p] : e \in Expressions, p \in Paddings}

\* the template literals whose text between the backticks has at most
\* budget characters, as [qs |-> quasi texts, ss |-> slots]
RECURSIVE BodiesOf(_, _, _)
BodiesOf(budget, quasiRaws, slots) ==
    {[qs |-> <<q>>, ss |-> <<>>] : q \in {r \in quasiRaws : Len(r) <= budget}}
    \cup UNION {
        {[qs |-> <<h.q>> \o b.qs, ss |-> <<h.slot>> \o b.ss] :
            b \in BodiesOf(budget - Len(h.q) - Len(SlotText(h.slot)),
                           quasiRaws, slots)} :
        h \in {x \in [q : quasiRaws, slot : slots] :
                  Len(x.q) + Len(SlotText(x.slot)) <= budget}}

Bodies(budget) == BodiesOf(budget, QuasiRaws, Slots)

\* Templates of three slots: longer texts over fewer expressions, written
\* without padding.
MaxCarriedLen == 16

CarriedExpressions ==
    {Identifier(<<"s">>), Identifier(NameNaN),
     OtherLiteral(<<"1">>, "number", <<"1">>, TNumber)}
    \cup {StringLiteral(c) : c \in {<<>>, <<DOLLAR>>, <<LBRACE>>}}
    \cup {NestedTemplate(q) : q \in {<<<<>>>>, <<<<>>, <<>>>>, <<<<LBRACE>>, <<>>>>}}

CarriedSlots == {[expr |-> e, pad |-> 0] : e \in CarriedExpressions}

CarriedQuasiRaws == {<<>>, <<DOLLAR>>, <<LBRACE>>}

ParentTypes == {"TaggedTemplateExpression", "VariableDeclarator"}

\* ================================================ the return-type enforcer
\* bounds of one traversal
MaxFunctions == 2
MaxReturns == 2

NoName == "<none>"

\* A function node as the tree supplier hands it over (id is its identity).
\* validReturnType and ancestorReturnType are what
\* isValidFunctionExpressionReturnType and ancestorHasReturnType answer for
\* it; isCallee tells whether it is the callee of its parent call.
FunctionShape(type, expression, voidBody, typeParameters, returnType, idName, parent, validReturnType, ancestorReturnType) ==
    [type |-> type, expression |-> expression, voidBody |-> voidBody,
     typeParameters |-> typeParameters, returnType |-> returnType,
     idName |-> idName, parent |-> parent, validReturnType |-> validReturnType,
     ancestorReturnType |-> ancestorReturnType, id |-> 0]

ParentNode(type, name, computed, isCallee) ==
    [type |-> type, name |-> name, computed |-> computed, isCallee |-> isCallee]

FunctionShapes ==
    {FunctionShape("FunctionDeclaration", FALSE, FALSE, FALSE, FALSE, "foo",
                   ParentNode("Program", NoName, FALSE, FALSE), FALSE, FALSE),
     FunctionShape("FunctionDeclaration", FALSE, FALSE, TRUE, TRUE, "bar",
                   ParentNode("Program", NoName, FALSE, FALSE), FALSE, FALSE),
     FunctionShape("ArrowFunctionExpression", TRUE, TRUE, FALSE, FALSE, NoName,
                   ParentNode("VariableDeclarator", "foo", FALSE, FALSE), FALSE, FALSE),
     FunctionShape("ArrowFunctionExpression", FALSE, FALSE, TRUE, FALSE, NoName,
                   ParentNode("CallExpression", NoName, FALSE, TRUE), FALSE, FALSE),
     FunctionShape("ArrowFunctionExpression", FALSE, FALSE, FALSE, FALSE, NoName,
                   ParentNode("ReturnStatement", NoName, FALSE, FALSE), FALSE, TRUE),
     FunctionShape("FunctionExpression", FALSE, FALSE, TRUE, FALSE, NoName,
                   ParentNode("MethodDefinition", "bar", FALSE, FALSE), FALSE, FALSE),
     FunctionShape("FunctionExpression", FALSE, FALSE, FALSE, FALSE, NoName,
                   ParentNode("VariableDeclarator", "baz", FALSE, FALSE), TRUE, FALSE)}

\* the function nodes the traversals of the model meet
TraversedShapes ==
    {shape \in FunctionShapes :
        shape.parent.type \in {"Program", "VariableDeclarator", "CallExpression"}}

defaultOptions ==
    [allowExpressions |-> FALSE,
     allowTypedFunctionExpressions |-> TRUE,
     allowHigherOrderFunctions |-> TRUE,
     allowDirectConstAssertionInArrowFunctions |-> TRUE,
     allowConciseArrowFunctionExpressionsStartingWithVoid |-> FALSE,
     allowFunctionsWithoutTypeParameters |-> FALSE,
     allowedNames |-> <<>>,
     allowIIFEs |-> FALSE]

\* the configurations a traversal is run under
OptionSets ==
    {defaultOptions,
     [defaultOptions EXCEPT !.allowIIFEs = TRUE,
                            !.allowConciseArrowFunctionExpressionsStartingWithVoid = TRUE],
     [defaultOptions EXCEPT !.allowedNames = <<"foo">>,
                            !.allowTypedFunctionExpressions = FALSE],
     [defaultOptions EXCEPT !.allowFunctionsWithoutTypeParameters = TRUE]}

includes(list, x) == \E i \in 1..Len(list) : list[i] = x

\* the outcome of functionInfoStack.pop(): the stack left and the frame
\* popped, which is undefined when the stack was empty
Undefined == [undefined |-> TRUE]

pop(stack) ==
    IF stack = <<>>
    THEN [stack |-> stack, value |-> Undefined]
    ELSE [stack |-> SubSeq(stack, 1, Len(stack) - 1), value |-> stack[Len(stack)]]

\* nullThrows(value, message): throws when the value is null or undefined
nullThrows(value) == [threw |-> value = Undefined, value |-> value]

enterFunction(stack, fn) == Append(stack, [node |-> fn, returns |-> <<>>])

popFunctionInfo(stack) ==
    LET popped == pop(stack)
        checked == nullThrows(popped.value)
    IN  [stack |-> popped.stack, threw |-> checked.threw, info |-> checked.value]

\* (mutant) only the operand of a new expression counts as invoked
isIIFEOfNewExpression(fn) == fn.parent.type = "NewExpression"

isIIFE(fn) == fn.parent.type = "CallExpression"

\* (mutant) the test of the type parameters comes after the early return
\* on an empty allow-list
isAllowedFunctionNamesFirst(options, fn) ==
    IF options.allowIIFEs /\ isIIFE(fn)
    THEN TRUE
    ELSE IF Len(options.allowedNames) = 0
    THEN FALSE
    ELSE IF options.allowFunctionsWithoutTypeParameters /\ ~fn.typeParameters
    THEN TRUE
    ELSE LET funcName ==
                 IF fn.idName # NoName
                 THEN fn.idName
                 ELSE IF fn.parent.type = "VariableDeclarator"
                 THEN fn.parent.name
                 ELSE IF /\ fn.parent.type \in {"MethodDefinition",
                                               "PropertyDefinition", "Property"}
                         /\ fn.parent.name # NoName
                         /\ ~fn.parent.computed
                 THEN fn.parent.name
                 ELSE NoName
         IN  IF /\ fn.type \in {"ArrowFunctionExpression", "FunctionExpression"}
                /\ funcName # NoName
                /\ includes(options.allowedNames, funcName)
             THEN TRUE
             ELSE /\ fn.type = "FunctionDeclaration"
                  /\ fn.idName # NoName
                  /\ includes(options.allowedNames, fn.idName)

\* (mutant) the key of a property is taken as the name also when computed
isAllowedFunctionComputedKey(options, fn) ==
    IF options.allowFunctionsWithoutTypeParameters /\ ~fn.typeParameters
    THEN TRUE
    ELSE IF options.allowIIFEs /\ isIIFE(fn)
    THEN TRUE
    ELSE IF Len(options.allowedNames) = 0
    THEN FALSE
    ELSE LET funcName ==
                 IF fn.idName # NoName
                 THEN fn.idName
                 ELSE IF fn.parent.type \in {"VariableDeclarator", "MethodDefinition",
                                              "PropertyDefinition", "Property"}
                 THEN fn.parent.name
                 ELSE NoName
         IN  IF /\ fn.type \in {"ArrowFunctionExpression", "FunctionExpression"}
                /\ funcName # NoName
                /\ includes(options.allowedNames, funcName)
             THEN TRUE
             ELSE /\ fn.type = "FunctionDeclaration"
                  /\ fn.idName # NoName
                  /\ includes(options.allowedNames, fn.idName)

isAllowedFunction(options, fn) ==
    IF options.allowFunctionsWithoutTypeParameters /\ ~fn.typeParameters
    THEN TRUE
    ELSE IF options.allowIIFEs /\ isIIFE(fn)
    THEN TRUE
    ELSE IF Len(options.allowedNames) = 0
    THEN FALSE
    ELSE LET funcName ==
                 IF fn.idName # NoName
                 THEN fn.idName
                 ELSE IF fn.parent.type = "VariableDeclarator"
                 THEN fn.parent.name
                 ELSE IF /\ fn.parent.type \in {"MethodDefinition",
                                               "PropertyDefinition", "Property"}
                         /\ fn.parent.name # NoName
                         /\ ~fn.parent.computed
                 THEN fn.parent.name
                 ELSE NoName
         IN  IF /\ fn.type \in {"ArrowFunctionExpression", "FunctionExpression"}
                /\ funcName # NoName
                /\ includes(options.allowedNames, funcName)
             THEN TRUE
             ELSE /\ fn.type = "FunctionDeclaration"
                  /\ fn.idName # NoName
                  /\ includes(options.allowedNames, fn.idName)

isValidFunctionExpressionReturnType(fn, options) == fn.validReturnType

ancestorHasReturnType(fn) == fn.ancestorReturnType

\* checkFunctionReturnType(info, options, sourceCode, report): whether it
\* calls report, which the collected returns decide together with the node
checkFunctionReturnType(info, options) ==
    /\ ~(/\ options.allowHigherOrderFunctions
         /\ info.returns # <<>>
         /\ \A i \in 1..Len(info.returns) : info.returns[i].yieldsFunction)
    /\ ~info.node.returnType

\* The outcome of one exit handler: the stack it leaves, whether it threw,
\* the frame it handed to checkFunctionReturnType (as a list of at most
\* one) and the nodes it reported.
Outcome(stack, threw, popped, checked, reported) ==
    [stack |-> stack, threw |-> threw, popped |-> popped, checked |-> checked,
     reported |-> reported]

checkAndReport(stack, info, options, fn) ==
    Outcome(stack, FALSE, <<info>>, <<info>>,
            IF checkFunctionReturnType(info, options) THEN <<fn>> ELSE <<>>)

\* (mutant) the concise-void exemption is decided before the frame is popped
exitFunctionExpressionVoidFirst(stack, options, fn) ==
    IF /\ options.allowConciseArrowFunctionExpressionsStartingWithVoid
       /\ fn.type = "ArrowFunctionExpression"
       /\ fn.expression
       /\ fn.voidBody
    THEN Outcome(stack, FALSE, <<>>, <<>>, <<>>)
    ELSE LET p == popFunctionInfo(stack)
         IN  IF p.threw
             THEN Outcome(p.stack, TRUE, <<>>, <<>>, <<>>)
             ELSE IF isAllowedFunction(options, fn)
             THEN Outcome(p.stack, FALSE, <<p.info>>, <<>>, <<>>)
             ELSE IF /\ options.allowTypedFunctionExpressions
                     /\ (isValidFunctionExpressionReturnType(fn, options)
                             \/ ancestorHasReturnType(fn))
             THEN Outcome(p.stack, FALSE, <<p.info>>, <<>>, <<>>)
             ELSE checkAndReport(p.stack, p.info, options, fn)

\* (mutant) without the exemption of the concise void arrow
exitFunctionExpressionWithoutVoid(stack, options, fn) ==
    LET p == popFunctionInfo(stack)
    IN  IF p.threw
        THEN Outcome(p.stack, TRUE, <<>>, <<>>, <<>>)
        ELSE IF isAllowedFunction(options, fn)
        THEN Outcome(p.stack, FALSE, <<p.info>>, <<>>, <<>>)
        ELSE IF /\ options.allowTypedFunctionExpressions
                /\ (isValidFunctionExpressionReturnType(fn, options)
                        \/ ancestorHasReturnType(fn))
        THEN Outcome(p.stack, FALSE, <<p.info>>, <<>>, <<>>)
        ELSE checkAndReport(p.stack, p.info, options, fn)

exitFunctionExpression(stack, options, fn) ==
    LET p == popFunctionInfo(stack)
    IN  IF p.threw
        THEN Outcome(p.stack, TRUE, <<>>, <<>>, <<>>)
        ELSE IF /\ options.allowConciseArrowFunctionExpressionsStartingWithVoid
                /\ fn.type = "ArrowFunctionExpression"
                /\ fn.expression
                /\ fn.voidBody
        THEN Outcome(p.stack, FALSE, <<p.info>>, <<>>, <<>>)
        ELSE IF isAllowedFunction(options, fn)
        THEN Outcome(p.stack, FALSE, <<p.info>>, <<>>, <<>>)
        ELSE IF /\ options.allowTypedFunctionExpressions
                /\ (isValidFunctionExpressionReturnType(fn, options)
                        \/ ancestorHasReturnType(fn))
        THEN Outcome(p.stack, FALSE, <<p.info>>, <<>>, <<>>)
        ELSE checkAndReport(p.stack, p.info, options, fn)

\* (mutant) a declaration with a return type leaves before its frame is
\* popped
exitFunctionDeclarationTypedFirst(stack, options, fn) ==
    IF options.allowTypedFunctionExpressions /\ fn.returnType
    THEN Outcome(stack, FALSE, <<>>, <<>>, <<>>)
    ELSE LET p == popFunctionInfo(stack)
         IN  IF p.threw
             THEN Outcome(p.stack, TRUE, <<>>, <<>>, <<>>)
             ELSE IF isAllowedFunction(options, fn)
             THEN Outcome(p.stack, FALSE, <<p.info>>, <<>>, <<>>)
             ELSE checkAndReport(p.stack, p.info, options, fn)

\* (mutant) a declaration with a return type is skipped whatever
\* allowTypedFunctionExpressions is
exitFunctionDeclarationAlwaysTyped(stack, options, fn) ==
    LET p == popFunctionInfo(stack)
    IN  IF p.threw
        THEN Outcome(p.stack, TRUE, <<>>, <<>>, <<>>)
        ELSE IF isAllowedFunction(options, fn)
        THEN Outcome(p.stack, FALSE, <<p.info>>, <<>>, <<>>)
        ELSE IF fn.returnType
        THEN Outcome(p.stack, FALSE, <<p.info>>, <<>>, <<>>)
        ELSE checkAndReport(p.stack, p.info, options, fn)

exitFunctionDeclaration(stack, options, fn) ==
    LET p == popFunctionInfo(stack)
    IN  IF p.threw
        THEN Outcome(p.stack, TRUE, <<>>, <<>>, <<>>)
        ELSE IF isAllowedFunction(options, fn)
        THEN Outcome(p.stack, FALSE, <<p.info>>, <<>>, <<>>)
        ELSE IF options.allowTypedFunctionExpressions /\ fn.returnType
        THEN Outcome(p.stack, FALSE, <<p.info>>, <<>>, <<>>)
        ELSE checkAndReport(p.stack, p.info, options, fn)

\* (mutant) a return statement met on an empty stack opens a frame
ReturnStatementOpeningFrame(stack, ret) ==
    IF stack = <<>>
    THEN <<[node |-> ret, returns |-> <<ret>>]>>
    ELSE [stack EXCEPT ![Len(stack)].returns = Append(@, ret)]

\* (mutant) the return statement is recorded in the outermost frame
ReturnStatementOutermost(stack, ret) ==
    IF stack = <<>>
    THEN stack
    ELSE [stack EXCEPT ![1].returns = Append(@, ret)]

\* functionInfoStack.at(-1)?.returns.push(node)
ReturnStatement(stack, ret) ==
    IF stack = <<>>
    THEN stack
    ELSE [stack EXCEPT ![Len(stack)].returns = Append(@, ret)]


\* ------------------------------------------------------------- the state
VARIABLES
    build,        \* which TemplateLiteral visitor the rule registers
    sourceText,   \* the text of the linted file
    node,         \* the TemplateLiteral node being visited
    pc,           \* "parsed", "reported", "fixed", "parseError" or
                  \* "noTemplate"
    reports,      \* the reports of the visitor, in the order issued
    output,       \* the text after the fixes, each character with its piece
    relinting,    \* the host is in its second pass, over the fixed text
    fixedPieces,  \* the pieces of the slots the first pass reported
    decisions     \* the revised visitor: per literal or template slot
                  \* processed, in order, the value of
                  \* nextCharacterIsOpeningCurlyBrace its escaping was
                  \* decided with

simplifierVars ==
    <<build, sourceText, node, pc, reports, output, relinting, fixedPieces,
      decisions>>

VARIABLES
    options,            \* the options the enforcer was created with
    functionInfoStack,  \* the enforcer's stack of FunctionInfo frames
    open,               \* the host: the function nodes entered and not left
    entered,            \* the host: how many function nodes were entered
    returned,           \* the host: how many return statements were visited
    enclosing,          \* the host: per return statement, the innermost open
                        \* function when it was visited (0: none)
    wellNested,         \* the host: no exit event without its enter so far
    phase,              \* "idle", "traversing", "thrown" or "ended"
    lastExit,           \* the last exit event: its node, the depth of the
                        \* stack when it fired, and the handler's outcome
    checked,            \* the frames handed to checkFunctionReturnType
    missingReturnType   \* the nodes reported, in order

enforcerVars ==
    <<options, functionInfoStack, open, entered, returned, enclosing,
      wellNested, phase, lastExit, checked, missingReturnType>>

VARIABLES
    otherStack,    \* the functionInfoStack of a second call of create
    otherOpen,     \* the host: the function nodes open in the second file
    otherLog,      \* the host: the events delivered to the second visitor map
    otherReports   \* the nodes reported for the second file, in order

otherVars == <<otherStack, otherOpen, otherLog, otherReports>>

VARIABLES
    tokens,        \* the markdown tokens of the rule doc under test
    schema,        \* rule.meta.schema of the rule under test
    optionsTest    \* 'each rule option should be mentioned in a heading':
                   \* "pending", "passed" or "threw"

docsVars == <<tokens, schema, optionsTest>>

VARIABLES
    ruleName,        \* the rule whose doc 'code examples ESLint output' reads
    tokenIndex,      \* how many tokens of the doc the loop has taken
    currentContext,  \* the loop's currentContext
    tabHeading,      \* the host: the heading token that opened the current
                     \* tab section, if any
    lastVisit,       \* the last iteration: its token, whether the block was
                     \* linted and which message count was expected
    examplesTest     \* "idle", "running", "skipped", "failed" or "passed"

examplesVars ==
    <<ruleName, tokenIndex, currentContext, tabHeading, lastVisit, examplesTest>>

VARIABLES
    page,          \* the RuleDocsPage handed to insertWhenNotToUseIt
    original,      \* the page as it was before the call
    pagePc         \* "idle", "built" or "done"

pageVars == <<page, original, pagePc>>

vars == <<simplifierVars, enforcerVars, otherVars, docsVars, examplesVars,
          pageVars>>

\* no docs page is being generated
PageIdle ==
    /\ page = <<>>
    /\ original = <<>>
    /\ pagePc = "idle"

\* currentContext = { type: 'outside-the-tabs' }
OutsideTheTabs == [type |-> "outside-the-tabs"]

\* the code examples of no doc are linted
ExamplesIdle ==
    /\ ruleName = ""
    /\ tokenIndex = 0
    /\ currentContext = OutsideTheTabs
    /\ tabHeading = <<>>
    /\ lastVisit = <<>>
    /\ examplesTest = "idle"

\* no docs test is running
DocsIdle ==
    /\ tokens = <<>>
    /\ schema = <<>>
    /\ optionsTest = "pending"

\* no second file is linted
OtherIdle ==
    /\ otherStack = <<>>
    /\ otherOpen = <<>>
    /\ otherLog = <<>>
    /\ otherReports = <<>>

\* the enforcer is not running
EnforcerIdle ==
    /\ options = defaultOptions
    /\ functionInfoStack = <<>>
    /\ open = <<>>
    /\ entered = 0
    /\ returned = 0
    /\ enclosing = <<>>
    /\ wellNested = TRUE
    /\ phase = "idle"
    /\ lastExit = <<>>
    /\ checked = <<>>
    /\ missingReturnType = <<>>

InitSimplifier ==
    /\ build \in {"rule", "revised"}
    /\ \E parentType \in ParentTypes, t \in Bodies(MaxLen - 2) :
           /\ sourceText = SourceOf(parentType, t.qs, t.ss)
           /\ node = Parse(parentType, 1, t.qs, t.ss)
    /\ pc = "parsed"
    /\ reports = <<>>
    /\ output = <<>>
    /\ relinting = FALSE
    /\ fixedPieces = {}
    /\ decisions = <<>>
    /\ PageIdle
    /\ EnforcerIdle
    /\ OtherIdle
    /\ DocsIdle
    /\ ExamplesIdle

\* the same linter over the templates of three slots
InitCarried ==
    /\ build \in {"rule", "revised"}
    /\ \E t \in BodiesOf(MaxCarriedLen - 2, CarriedQuasiRaws, CarriedSlots) :
           /\ sourceText = SourceOf("VariableDeclarator", t.qs, t.ss)
           /\ node = Parse("VariableDeclarator", 1, t.qs, t.ss)
    /\ pc = "parsed"
    /\ reports = <<>>
    /\ output = <<>>
    /\ relinting = FALSE
    /\ fixedPieces = {}
    /\ decisions = <<>>
    /\ PageIdle
    /\ EnforcerIdle
    /\ OtherIdle
    /\ DocsIdle
    /\ ExamplesIdle

\* the traversal host reaches the node and calls the visitor of the rule file
VisitTemplateLiteral ==
    /\ pc = "parsed"
    /\ build = "rule"
    /\ reports' = TemplateLiteral(node)
    /\ decisions' = <<>>
    /\ pc' = "reported"
    /\ UNCHANGED <<build, sourceText, node, output, relinting, fixedPieces,
                   enforcerVars, otherVars, docsVars, examplesVars,
                   pageVars>>

\* the same, the rule registering the revised visitor
VisitTemplateLiteralRevised ==
    /\ pc = "parsed"
    /\ build = "revised"
    /\ reports' = TemplateLiteralRevised(node)
    /\ decisions' = decisionsRevised(node)
    /\ pc' = "reported"
    /\ UNCHANGED <<build, sourceText, node, output, relinting, fixedPieces,
                   enforcerVars, otherVars, docsVars, examplesVars,
                   pageVars>>

\* the host applies the fixes of all reports of the pass
ApplyFixes ==
    /\ pc = "reported"
    /\ ~relinting
    /\ output' = applyEdits(node, sourceText, allEdits(reports))
    /\ pc' = "fixed"
    /\ UNCHANGED <<build, sourceText, node, reports, relinting, fixedPieces,
                   decisions, enforcerVars, otherVars, docsVars, examplesVars,
                   pageVars>>

\* The host, having applied fixes, lints the fixed text again: it parses
\* the text, and the traversal reaches the template literal at the place of
\* the first one, if the text parses and still has one there.
Reparse ==
    /\ pc = "fixed"
    /\ reports # <<>>
    /\ LET text == chars(output)
           read == parseTemplate(node.parent.type, text, node.range[1])
       IN  /\ sourceText' = text
           /\ IF text[node.range[1] + 1] # BT
              THEN pc' = "noTemplate" /\ UNCHANGED node
              ELSE IF ~read.ok
              THEN pc' = "parseError" /\ UNCHANGED node
              ELSE pc' = "parsed" /\ node' = read.node
    /\ relinting' = TRUE
    /\ fixedPieces' =
           {2 * i : i \in {j \in 1..Len(node.expressions) :
                              \E k \in 1..Len(reports) :
                                  reports[k].node = node.expressions[j]}}
    /\ reports' = <<>>
    /\ UNCHANGED <<build, output, decisions, enforcerVars, otherVars, docsVars, examplesVars,
                   pageVars>>

NextSimplifier ==
    \/ VisitTemplateLiteral
    \/ VisitTemplateLiteralRevised
    \/ ApplyFixes
    \/ Reparse

SpecCarried == InitCarried /\ [][NextSimplifier]_vars

SpecSimplifier == InitSimplifier /\ [][NextSimplifier]_vars

\* ----------------------------------------- the enforcer's state machine
InitEnforcer ==
    /\ build = "rule"
    /\ sourceText = <<>>
    /\ node = <<>>
    /\ pc = "idle"
    /\ reports = <<>>
    /\ output = <<>>
    /\ relinting = FALSE
    /\ fixedPieces = {}
    /\ decisions = <<>>
    /\ PageIdle
    /\ options \in OptionSets
    /\ functionInfoStack = <<>>
    /\ open = <<>>
    /\ entered = 0
    /\ returned = 0
    /\ enclosing = <<>>
    /\ wellNested = TRUE
    /\ phase = "traversing"
    /\ lastExit = <<>>
    /\ checked = <<>>
    /\ missingReturnType = <<>>
    /\ OtherIdle
    /\ DocsIdle
    /\ ExamplesIdle

\* 'ArrowFunctionExpression, FunctionExpression, FunctionDeclaration': the
\* host enters a function node
EnterFunction ==
    /\ phase = "traversing"
    /\ entered < MaxFunctions
    /\ \E shape \in TraversedShapes :
           LET fn == [shape EXCEPT !.id = entered + 1]
           IN  /\ functionInfoStack' = enterFunction(functionInfoStack, fn)
               /\ open' = Append(open, fn)
    /\ entered' = entered + 1
    /\ UNCHANGED <<options, returned, enclosing, wellNested, phase, lastExit,
                   checked, missingReturnType, simplifierVars, otherVars, docsVars, examplesVars,
                   pageVars>>

\* the nodes a mismatched instrumentation leaves without entering them
StrayShapes ==
    {shape \in TraversedShapes :
        shape.idName = "foo" \/ shape.voidBody \/ shape.validReturnType}

\* The function nodes an exit event may be dispatched for: the innermost
\* open one, or, the instrumentation being mismatched (once per
\* traversal), a node that was never entered.
exitedNodes ==
    (IF open = <<>> THEN {} ELSE {open[Len(open)]})
    \cup (IF wellNested /\ entered < MaxFunctions
          THEN {[shape EXCEPT !.id = entered + 1] : shape \in StrayShapes}
          ELSE {})

\* what the host and the logs keep of an exit event and its outcome
Exited(fn, outcome) ==
    /\ functionInfoStack' = outcome.stack
    /\ phase' = IF outcome.threw THEN "thrown" ELSE phase
    /\ lastExit' = <<[node |-> fn, depth |-> Len(functionInfoStack),
                      outcome |-> outcome]>>
    /\ checked' = checked \o outcome.checked
    /\ missingReturnType' = missingReturnType \o outcome.reported
    /\ IF open # <<>> /\ fn = open[Len(open)]
       THEN /\ open' = SubSeq(open, 1, Len(open) - 1)
            /\ UNCHANGED <<wellNested, entered>>
       ELSE /\ wellNested' = FALSE
            /\ entered' = entered + 1
            /\ UNCHANGED open
    /\ UNCHANGED <<options, returned, enclosing, simplifierVars, otherVars, docsVars, examplesVars,
                   pageVars>>

\* 'ArrowFunctionExpression:exit' and 'FunctionExpression:exit'
ExitFunctionExpression ==
    /\ phase = "traversing"
    /\ \E fn \in exitedNodes :
           /\ fn.type \in {"ArrowFunctionExpression", "FunctionExpression"}
           /\ Exited(fn, exitFunctionExpression(functionInfoStack, options, fn))

\* 'FunctionDeclaration:exit'
ExitFunctionDeclaration ==
    /\ phase = "traversing"
    /\ \E fn \in exitedNodes :
           /\ fn.type = "FunctionDeclaration"
           /\ Exited(fn, exitFunctionDeclaration(functionInfoStack, options, fn))

\* ReturnStatement: the host visits a return statement
VisitReturnStatement ==
    /\ phase = "traversing"
    /\ returned < MaxReturns
    /\ \E yieldsFunction \in BOOLEAN :
           LET ret == [id |-> returned + 1, yieldsFunction |-> yieldsFunction]
           IN  /\ functionInfoStack' = ReturnStatement(functionInfoStack, ret)
               /\ enclosing' =
                      Append(enclosing,
                             [ret |-> ret,
                              fn |-> IF open = <<>> THEN 0 ELSE open[Len(open)].id])
    /\ returned' = returned + 1
    /\ UNCHANGED <<options, open, entered, wellNested, phase, lastExit, checked,
                   missingReturnType, simplifierVars, otherVars, docsVars, examplesVars,
                   pageVars>>

\* the host has left every node it entered: the traversal of the file ends
EndTraversal ==
    /\ phase = "traversing"
    /\ open = <<>>
    /\ phase' = "ended"
    /\ UNCHANGED <<options, functionInfoStack, open, entered, returned,
                   enclosing, wellNested, lastExit, checked, missingReturnType,
                   simplifierVars, otherVars, docsVars, examplesVars,
                   pageVars>>

NextEnforcer ==
    \/ EnterFunction
    \/ ExitFunctionExpression
    \/ ExitFunctionDeclaration
    \/ VisitReturnStatement
    \/ EndTraversal

SpecEnforcer == InitEnforcer /\ [][NextEnforcer]_vars

\* ------------------------------- the enforcer over a file of one function
\* the parents a function expression is written under: a declarator of an
\* identifier or of a pattern, a call as its callee or as an argument, a
\* property with an identifier key, computed or not, or another key, a
\* method, a class property, a return statement
WrittenParents ==
    {ParentNode("VariableDeclarator", "foo", FALSE, FALSE),
     ParentNode("VariableDeclarator", NoName, FALSE, FALSE),
     ParentNode("CallExpression", NoName, FALSE, TRUE),
     ParentNode("CallExpression", NoName, FALSE, FALSE),
     ParentNode("Property", "foo", FALSE, FALSE),
     ParentNode("Property", "foo", TRUE, FALSE),
     ParentNode("Property", NoName, FALSE, FALSE),
     ParentNode("MethodDefinition", "foo", FALSE, FALSE),
     ParentNode("PropertyDefinition", "foo", FALSE, FALSE),
     ParentNode("ReturnStatement", NoName, FALSE, FALSE)}

\* a parent with what isValidFunctionExpressionReturnType and
\* ancestorHasReturnType answer for a function written under it: a typed
\* context is one of a declarator, an argument, a property or a class
\* property, and a return type of an ancestor is met from a return
\* statement
WrittenContexts ==
    {[parent |-> parent, valid |-> FALSE, ancestor |-> FALSE] :
        parent \in WrittenParents}
    \cup {[parent |-> parent, valid |-> TRUE, ancestor |-> FALSE] :
        parent \in {ParentNode("VariableDeclarator", "foo", FALSE, FALSE),
                    ParentNode("CallExpression", NoName, FALSE, FALSE),
                    ParentNode("Property", "foo", FALSE, FALSE),
                    ParentNode("PropertyDefinition", "foo", FALSE, FALSE)}}
    \cup {[parent |-> ParentNode("ReturnStatement", NoName, FALSE, FALSE),
           valid |-> FALSE, ancestor |-> TRUE]}

\* the function nodes of the one-function files: arrows with a block body,
\* an expression body or a void expression body, function expressions with
\* or without a name, declarations with or without a name
WrittenShapes ==
    {FunctionShape("ArrowFunctionExpression", body[1], body[2], tp, FALSE, NoName,
                   context.parent, context.valid, context.ancestor) :
        body \in {<<FALSE, FALSE>>, <<TRUE, FALSE>>, <<TRUE, TRUE>>},
        tp \in BOOLEAN, context \in WrittenContexts}
    \cup {FunctionShape("FunctionExpression", FALSE, FALSE, tp, FALSE, name,
                        context.parent, context.valid, context.ancestor) :
        name \in {NoName, "foo"}, tp \in BOOLEAN, context \in WrittenContexts}
    \cup {FunctionShape("FunctionDeclaration", FALSE, FALSE, tp, rt, name,
                        ParentNode("Program", NoName, FALSE, FALSE), FALSE, FALSE) :
        name \in {NoName, "foo", "bar"}, tp \in BOOLEAN, rt \in BOOLEAN}

\* the configurations of the one-function files
ExemptionOptionSets ==
    {[defaultOptions EXCEPT
          !.allowTypedFunctionExpressions = typed,
          !.allowConciseArrowFunctionExpressionsStartingWithVoid = void,
          !.allowFunctionsWithoutTypeParameters = noTypeParameters,
          !.allowIIFEs = iifes,
          !.allowedNames = names] :
        typed \in BOOLEAN, void \in BOOLEAN, noTypeParameters \in BOOLEAN,
        iifes \in BOOLEAN, names \in {<<>>, <<"foo">>}}

InitExemptions ==
    /\ build = "rule"
    /\ sourceText = <<>>
    /\ node = <<>>
    /\ pc = "idle"
    /\ reports = <<>>
    /\ output = <<>>
    /\ relinting = FALSE
    /\ fixedPieces = {}
    /\ decisions = <<>>
    /\ PageIdle
    /\ options \in ExemptionOptionSets
    /\ functionInfoStack = <<>>
    /\ open = <<>>
    /\ entered = 0
    /\ returned = 0
    /\ enclosing = <<>>
    /\ wellNested = TRUE
    /\ phase = "traversing"
    /\ lastExit = <<>>
    /\ checked = <<>>
    /\ missingReturnType = <<>>
    /\ OtherIdle
    /\ DocsIdle
    /\ ExamplesIdle

\* 'ArrowFunctionExpression, FunctionExpression, FunctionDeclaration': the
\* host enters the function of the file
EnterWrittenFunction ==
    /\ phase = "traversing"
    /\ entered = 0
    /\ \E shape \in WrittenShapes :
           LET fn == [shape EXCEPT !.id = entered + 1]
           IN  /\ functionInfoStack' = enterFunction(functionInfoStack, fn)
               /\ open' = Append(open, fn)
    /\ entered' = entered + 1
    /\ UNCHANGED <<options, returned, enclosing, wellNested, phase, lastExit,
                   checked, missingReturnType, simplifierVars, otherVars,
                   docsVars, examplesVars,
                   pageVars>>

NextExemptions ==
    \/ EnterWrittenFunction
    \/ ExitFunctionExpression
    \/ ExitFunctionDeclaration
    \/ VisitReturnStatement
    \/ EndTraversal

SpecExemptions == InitExemptions /\ [][NextExemptions]_vars

\* ===================================================== the docs tests
\* bound on the tokens of a rule doc
MaxTokens == 3

NL == "nl"

OptionsText == <<"O", "p", "t", "i", "o", "n", "s">>

\* the texts of the headings of the docs of the model
HeadingTexts ==
    {OptionsText,
     <<BT, "a", BT>>,
     <<BT, "a", "b", BT>>,
     <<"a", " ", BT, "a", "b", BT>>}

HeadingToken(text) == [type |-> "heading", text |-> text]

DocTokens ==
    {HeadingToken(text) : text \in HeadingTexts}
    \cup {[type |-> "paragraph", text |-> <<BT, "a", BT>>]}

RECURSIVE TokenLists(_)
TokenLists(n) ==
    IF n = 0
    THEN {<<>>}
    ELSE TokenLists(n - 1)
         \cup {Append(l, t) : l \in {x \in TokenLists(n - 1) : Len(x) = n - 1},
                              t \in DocTokens}

SchemaItem(type, properties) == [type |-> type, properties |-> properties]

\* the options schemas of the rules of the model
Schemas ==
    {<<>>,
     <<SchemaItem("object", <<<<"a">>>>)>>,
     <<SchemaItem("object", <<<<"a">>, <<"a", "b">>>>)>>,
     <<SchemaItem("string", <<>>), SchemaItem("object", <<<<"a", "b">>>>)>>}

tokenIsHeading(token) == token.type = "heading"

\* Array.prototype.findIndex over a list of texts, as a 0-based index, -1
\* when none is the text looked for
findIndex(texts, wanted) ==
    IF \E i \in 1..Len(texts) : texts[i] = wanted
    THEN (CHOOSE i \in 1..Len(texts) :
              /\ texts[i] = wanted
              /\ \A j \in 1..(i - 1) : texts[j] # wanted) - 1
    ELSE 0 - 1

\* Array.prototype.slice(start): a negative start counts from the end
sliceFrom(seq, start) ==
    LET from == IF start < 0 THEN Max(Len(seq) + start, 0) ELSE Min(start, Len(seq))
    IN  SubSeq(seq, from + 1, Len(seq))

\* Array.prototype.join('\n')
RECURSIVE join(_)
join(texts) ==
    IF texts = <<>>
    THEN <<>>
    ELSE IF Len(texts) = 1
    THEN texts[1]
    ELSE texts[1] \o <<NL>> \o join(Tail(texts))

\* String.prototype.includes
includesText(text, part) ==
    \E i \in 0..(Len(text) - Len(part)) : SubSeq(text, i + 1, i + Len(part)) = part

headingTextAfterOptions(docTokens) ==
    LET headings == SelectSeq(docTokens, tokenIsHeading)
        texts == [i \in 1..Len(headings) |-> headings[i].text]
    IN  join(sliceFrom(texts, findIndex(texts, OptionsText)))

\* the test 'each rule option should be mentioned in a heading'
eachRuleOptionShouldBeMentionedInAHeading(docTokens, ruleSchema) ==
    IF \E i \in 1..Len(ruleSchema) :
           /\ ruleSchema[i].type = "object"
           /\ \E k \in 1..Len(ruleSchema[i].properties) :
                  ~includesText(headingTextAfterOptions(docTokens),
                                <<BT>> \o ruleSchema[i].properties[k] \o <<BT>>)
    THEN "threw"
    ELSE "passed"

InitDocs ==
    /\ tokens \in TokenLists(MaxTokens)
    /\ schema \in Schemas
    /\ optionsTest = "pending"
    /\ build = "rule"
    /\ sourceText = <<>>
    /\ node = <<>>
    /\ pc = "idle"
    /\ reports = <<>>
    /\ output = <<>>
    /\ relinting = FALSE
    /\ fixedPieces = {}
    /\ decisions = <<>>
    /\ PageIdle
    /\ EnforcerIdle
    /\ OtherIdle
    /\ ExamplesIdle

\* the test runner runs the test over the doc and the schema of the rule
RunOptionsTest ==
    /\ optionsTest = "pending"
    /\ optionsTest' = eachRuleOptionShouldBeMentionedInAHeading(tokens, schema)
    /\ UNCHANGED <<tokens, schema, simplifierVars, enforcerVars, otherVars,
                   examplesVars,
                   pageVars>>

NextDocs == RunOptionsTest

SpecDocs == InitDocs /\ [][NextDocs]_vars

\* ----------------------------------- the test 'code examples ESLint output'
\* bound on the tokens the loop takes from one doc
MaxDocTokens == 5

\* Texts are lists of words, blanks and marks here.
CrossMark == "cross-mark"
CheckMark == "check-mark"
NoLang == <<"undefined">>
PlaygroundButton == <<"showPlaygroundButton">>

\* String.prototype.trim
RECURSIVE trimStart(_)
trimStart(text) ==
    IF text # <<>> /\ Head(text) = " " THEN trimStart(Tail(text)) ELSE text

trim(text) == reverse(trimStart(reverse(trimStart(text))))

startsWithText(text, prefix) ==
    Len(prefix) <= Len(text) /\ SubSeq(text, 1, Len(prefix)) = prefix

withoutBlanks(text) == SelectSeq(text, LAMBDA w : w # " ")

\* /^<!--\s*tabs\s*-->$/ and /^<!--\s*\/tabs\s*-->$/
isOpeningTabsComment(text) == withoutBlanks(text) = <<"<!--", "tabs", "-->">>
                              /\ text = trim(text)
isClosingTabsComment(text) == withoutBlanks(text) = <<"<!--", "/tabs", "-->">>
                              /\ text = trim(text)

\* /^tsx?\b/i
isTsLang(lang) == lang # <<>> /\ lang[1] \in {"ts", "tsx", "TS", "TSX"}

HtmlToken(text) == [type |-> "html", text |-> text]
TabHeadingToken(depth, text) == [type |-> "heading", depth |-> depth, text |-> text]
CodeToken(lang, messages) == [type |-> "code", lang |-> lang, messages |-> messages]

\* the tokens of the docs of the model; a code token carries the number of
\* messages linter.verify answers for its text
ExampleTokens ==
    {HtmlToken(t) : t \in {<<"<!--", "tabs", "-->">>,
                           <<" ", "<!--", " ", "tabs", " ", "-->">>,
                           <<"<!--", "/tabs", "-->">>,
                           <<"<!--", "prettier-ignore", "-->">>}}
    \cup {TabHeadingToken(d, t) :
              d \in {2, 3},
              t \in {<<CrossMark, " ", "Incorrect">>,
                     <<" ", CrossMark, " ", "Incorrect", " ", "Code">>,
                     <<CheckMark, " ", "Correct">>,
                     <<"Incorrect">>}}
    \cup {CodeToken(l, m) :
              l \in {NoLang, <<"ts">>, <<"ts", " ">> \o PlaygroundButton, <<"tsx">>,
                     <<"js", " ">> \o PlaygroundButton},
              m \in {0, 1}}
    \cup {[type |-> "paragraph"]}

\* the rules whose docs are read
RuleNames ==
    {"explicit-function-return-type", "no-useless-template-literals",
     "prefer-readonly-parameter-types", "prefer-optional-chain"}

\* the rules the describe block returns early for
skippedRules == {"prefer-readonly-parameter-types", "prefer-optional-chain"}

sectionTypeOf(heading) ==
    IF startsWithText(heading, <<CrossMark, " ", "Incorrect">>)
    THEN "incorrect"
    ELSE IF startsWithText(heading, <<CheckMark, " ", "Correct">>)
    THEN "correct"
    ELSE "unknown"

\* (mutant) a heading opens a tab section from any context but a deeper one
contextAfterAnyHeading(context, token) ==
    IF token.type = "html"
    THEN IF isOpeningTabsComment(trim(token.text))
         THEN [type |-> "entered-tabs"]
         ELSE IF isClosingTabsComment(trim(token.text))
         THEN OutsideTheTabs
         ELSE context
    ELSE IF token.type = "heading"
    THEN IF context.type = "under-tab-heading" /\ token.depth < context.headingsDepth
         THEN OutsideTheTabs
         ELSE IF \/ context.type \in {"entered-tabs", "outside-the-tabs"}
                 \/ (context.type = "under-tab-heading"
                         /\ token.depth = context.headingsDepth)
         THEN [type |-> "under-tab-heading",
               headingsDepth |-> token.depth,
               sectionType |-> sectionTypeOf(trim(token.text))]
         ELSE context
    ELSE context

\* the update of currentContext at the head of one iteration
contextAfter(context, token) ==
    IF token.type = "html"
    THEN IF isOpeningTabsComment(trim(token.text))
         THEN [type |-> "entered-tabs"]
         ELSE IF isClosingTabsComment(trim(token.text))
         THEN OutsideTheTabs
         ELSE context
    ELSE IF token.type = "heading"
    THEN IF context.type = "under-tab-heading" /\ token.depth < context.headingsDepth
         THEN OutsideTheTabs
         ELSE IF \/ context.type = "entered-tabs"
                 \/ (context.type = "under-tab-heading"
                         /\ token.depth = context.headingsDepth)
         THEN [type |-> "under-tab-heading",
               headingsDepth |-> token.depth,
               sectionType |-> sectionTypeOf(trim(token.text))]
         ELSE context
    ELSE context

\* (mutant) a code block is linted only if it is both under a tab heading
\* and marked with showPlaygroundButton
isLintedWhenBoth(token, context) ==
    /\ token.type = "code"
    /\ context.type = "under-tab-heading"
    /\ token.lang # NoLang /\ includesText(token.lang, PlaygroundButton)
    /\ token.lang # NoLang
    /\ isTsLang(trim(token.lang))

\* the two `continue` conditions of the loop, negated
isLinted(token, context) ==
    /\ token.type = "code"
    /\ \/ context.type = "under-tab-heading"
       \/ (token.lang # NoLang /\ includesText(token.lang, PlaygroundButton))
    /\ token.lang # NoLang
    /\ isTsLang(trim(token.lang))

\* the expectation on messages.length: "some", "none" or "any"
expectedMessages(context) ==
    IF context.type = "under-tab-heading"
    THEN IF context.sectionType = "incorrect"
         THEN "some"
         ELSE IF context.sectionType = "correct" THEN "none" ELSE "any"
    ELSE "any"

InitExamples ==
    /\ ruleName \in RuleNames
    /\ tokenIndex = 0
    /\ currentContext = OutsideTheTabs
    /\ tabHeading = <<>>
    /\ lastVisit = <<>>
    /\ examplesTest = "idle"
    /\ build = "rule"
    /\ sourceText = <<>>
    /\ node = <<>>
    /\ pc = "idle"
    /\ reports = <<>>
    /\ output = <<>>
    /\ relinting = FALSE
    /\ fixedPieces = {}
    /\ decisions = <<>>
    /\ PageIdle
    /\ EnforcerIdle
    /\ OtherIdle
    /\ DocsIdle

\* the describe block starts: it returns at once for the skipped rules
DescribeCodeExamples ==
    /\ examplesTest = "idle"
    /\ examplesTest' = IF ruleName \in skippedRules THEN "skipped" ELSE "running"
    /\ UNCHANGED <<ruleName, tokenIndex, currentContext, tabHeading, lastVisit,
                   simplifierVars, enforcerVars, otherVars, docsVars,
                   pageVars>>

\* one iteration of `for (const token of tokens)`
VisitToken ==
    /\ examplesTest = "running"
    /\ tokenIndex < MaxDocTokens
    /\ \E token \in ExampleTokens :
           LET context == contextAfter(currentContext, token)
               linted == isLinted(token, context)
               expected == IF linted THEN expectedMessages(context) ELSE "any"
               met == \/ expected = "any"
                      \/ expected = "some" /\ token.messages # 0
                      \/ expected = "none" /\ token.messages = 0
           IN  /\ currentContext' = context
               /\ tabHeading' =
                      IF context.type # "under-tab-heading"
                      THEN <<>>
                      ELSE IF token.type = "heading" /\ context # currentContext
                      THEN <<token>>
                      ELSE IF token.type = "heading"
                              /\ currentContext.type = "under-tab-heading"
                              /\ token.depth = currentContext.headingsDepth
                      THEN <<token>>
                      ELSE tabHeading
               /\ lastVisit' = <<[token |-> token, linted |-> linted,
                                  expected |-> expected]>>
               /\ examplesTest' = IF met THEN "running" ELSE "failed"
    /\ tokenIndex' = tokenIndex + 1
    /\ UNCHANGED <<ruleName, simplifierVars, enforcerVars, otherVars, docsVars,
                   pageVars>>

\* the doc has no more tokens
EndOfTokens ==
    /\ examplesTest = "running"
    /\ examplesTest' = "passed"
    /\ UNCHANGED <<ruleName, tokenIndex, currentContext, tabHeading, lastVisit,
                   simplifierVars, enforcerVars, otherVars, docsVars,
                   pageVars>>

NextExamples ==
    \/ DescribeCodeExamples
    \/ VisitToken
    \/ EndOfTokens

SpecExamples == InitExamples /\ [][NextExamples]_vars

\* ------------------------------------------- two files, two calls of create
\* the events the host delivers to the two visitor maps together
MaxInterleaved == 4

\* create(context, [options]): `const functionInfoStack = []` allocates the
\* array the closures of this call capture; the result names that array
\* (1: the variable functionInfoStack, 2: the variable otherStack)
\* (mutant) one array at module level, shared by all calls
createSharingStack(invocation) == 1

create(invocation) == invocation

\* the array the visitor map of the second call works on
capturedStack == IF create(2) = 1 THEN functionInfoStack ELSE otherStack

\* the second visitor map leaves its array as newStack
Captured(newStack) ==
    IF create(2) = 1
    THEN functionInfoStack' = newStack /\ UNCHANGED otherStack
    ELSE otherStack' = newStack /\ UNCHANGED functionInfoStack

\* the nodes of the second file have identities of their own
otherId(k) == MaxInterleaved + MaxFunctions + k

OtherEnterFunction ==
    /\ \E shape \in TraversedShapes :
           LET fn == [shape EXCEPT !.id = otherId(Len(otherLog))]
           IN  /\ Captured(enterFunction(capturedStack, fn))
               /\ otherOpen' = Append(otherOpen, fn)
               /\ otherLog' = Append(otherLog, [kind |-> "enter", fn |-> fn])
    /\ UNCHANGED <<otherReports, options, open, entered, returned, enclosing,
                   wellNested, phase, lastExit, checked, missingReturnType,
                   simplifierVars, docsVars, examplesVars,
                   pageVars>>

OtherExitFunction ==
    /\ otherOpen # <<>>
    /\ LET fn == otherOpen[Len(otherOpen)]
           outcome == IF fn.type = "FunctionDeclaration"
                      THEN exitFunctionDeclaration(capturedStack, options, fn)
                      ELSE exitFunctionExpression(capturedStack, options, fn)
       IN  /\ Captured(outcome.stack)
           /\ otherOpen' = SubSeq(otherOpen, 1, Len(otherOpen) - 1)
           /\ otherLog' = Append(otherLog, [kind |-> "exit", fn |-> fn])
           /\ otherReports' = otherReports \o outcome.reported
    /\ UNCHANGED <<options, open, entered, returned, enclosing, wellNested,
                   phase, lastExit, checked, missingReturnType, simplifierVars,
                   docsVars, examplesVars,
                   pageVars>>

OtherReturnStatement ==
    /\ \E yieldsFunction \in BOOLEAN :
           LET ret == [id |-> otherId(Len(otherLog)),
                       yieldsFunction |-> yieldsFunction]
           IN  /\ Captured(ReturnStatement(capturedStack, ret))
               /\ otherLog' = Append(otherLog, [kind |-> "return", ret |-> ret])
    /\ UNCHANGED <<otherOpen, otherReports, options, open, entered, returned,
                   enclosing, wellNested, phase, lastExit, checked,
                   missingReturnType, simplifierVars,
                   docsVars, examplesVars,
                   pageVars>>

\* the bound on the events of the two traversals together
withinInterleaving == entered' + returned' + Len(otherLog') <= MaxInterleaved

InitTwoFiles ==
    /\ InitEnforcer
    /\ options = defaultOptions

NextTwoFiles ==
    \/ EnterFunction /\ withinInterleaving
    \/ ExitFunctionExpression /\ withinInterleaving
    \/ ExitFunctionDeclaration /\ withinInterleaving
    \/ VisitReturnStatement /\ withinInterleaving
    \/ EndTraversal
    \/ OtherEnterFunction /\ withinInterleaving
    \/ OtherExitFunction /\ withinInterleaving
    \/ OtherReturnStatement /\ withinInterleaving

SpecTwoFiles == InitTwoFiles /\ [][NextTwoFiles]_vars


\* ================================================= the docs generator
\* bound on the children of a page
MaxChildren == 4

WhenNotToUseItText == "When Not To Use It"

PageHeading(depth, text) == [type |-> "heading", depth |-> depth, text |-> text]

\* the children a page has besides its 'When Not To Use It' heading
PageNodes ==
    {PageHeading(2, "Options"), PageHeading(3, "Example"),
     [type |-> "paragraph", children |-> <<"text">>],
     [type |-> "code"]}

\* the lists of at most n children that hold the heading exactly once when
\* held is true, and not at all otherwise
RECURSIVE ChildLists(_, _)
ChildLists(n, held) ==
    IF n = 0
    THEN IF held THEN {} ELSE {<<>>}
    ELSE ChildLists(n - 1, held)
         \cup {Append(l, c) : l \in {x \in ChildLists(n - 1, held) : Len(x) = n - 1},
                              c \in PageNodes}
         \cup (IF held
               THEN {Append(l, PageHeading(2, WhenNotToUseItText)) :
                        l \in {x \in ChildLists(n - 1, FALSE) : Len(x) = n - 1}}
               ELSE {})

nodeIsHeading(child) == child.type = "heading"

\* 0-based index of the 'When Not To Use It' heading
headingIndexOfWhenNotToUseIt(children) ==
    (CHOOSE i \in 1..Len(children) :
         children[i] = PageHeading(2, WhenNotToUseItText)) - 1

RuleDocsPage(children, requiresTypeChecking) ==
    [children |-> children,
     headingIndices |-> [whenNotToUseIt |-> headingIndexOfWhenNotToUseIt(children)],
     rule |-> [meta |-> [docs |-> [requiresTypeChecking |-> requiresTypeChecking]]]]

\* page.spliceChildren(start, 0, item): Array.prototype.splice on the
\* children (a start beyond the end is the end, a negative one counts from
\* the end), the heading indices recomputed
spliceChildren(p, start, item) ==
    LET n == Len(p.children)
        from == IF start < 0 THEN Max(n + start, 0) ELSE Min(start, n)
        children == SubSeq(p.children, 1, from) \o <<item>>
                        \o SubSeq(p.children, from + 1, n)
    IN  [p EXCEPT !.children = children,
                  !.headingIndices.whenNotToUseIt =
                      headingIndexOfWhenNotToUseIt(children)]

\* page.children.findIndex(child => nodeIsHeading(child) && child.depth === 2,
\* thisArg): the second argument of findIndex is the value of `this` in the
\* callback, so the search starts at the first child
findIndexOfDepth2Heading(children, thisArg) ==
    LET found == {i \in 1..Len(children) :
                     nodeIsHeading(children[i]) /\ children[i].depth = 2}
    IN  IF found = {}
        THEN 0 - 1
        ELSE (CHOOSE i \in found : \A j \in found : i <= j) - 1

\* the paragraph that is put in
TypeCheckedParagraph(hasExistingText) ==
    [type |-> "paragraph",
     children |-> (IF hasExistingText THEN <<"thematicBreak">> ELSE <<>>)
                      \o <<"text", "link", "text", "link", "text">>]

insertWhenNotToUseIt(p) ==
    IF ~p.rule.meta.docs.requiresTypeChecking
    THEN p
    ELSE LET whenNotToUseIt == p.headingIndices.whenNotToUseIt
             hasExistingText ==
                 /\ whenNotToUseIt < Len(p.children) - 1
                 /\ p.children[whenNotToUseIt + 2].type # "heading"
             nextHeadingIndex ==
                 findIndexOfDepth2Heading(p.children, whenNotToUseIt + 1)
                     + whenNotToUseIt + 1
         IN  spliceChildren(p,
                            IF nextHeadingIndex = 0 - 1
                            THEN Len(p.children)
                            ELSE nextHeadingIndex - 1,
                            TypeCheckedParagraph(hasExistingText))

InitPage ==
    /\ \E children \in ChildLists(MaxChildren, TRUE), requiresTypeChecking \in BOOLEAN :
           page = RuleDocsPage(children, requiresTypeChecking)
    /\ original = page
    /\ pagePc = "built"
    /\ build = "rule"
    /\ sourceText = <<>>
    /\ node = <<>>
    /\ pc = "idle"
    /\ reports = <<>>
    /\ output = <<>>
    /\ relinting = FALSE
    /\ fixedPieces = {}
    /\ decisions = <<>>
    /\ EnforcerIdle
    /\ OtherIdle
    /\ DocsIdle
    /\ ExamplesIdle

\* the generator calls insertWhenNotToUseIt(page)
InsertWhenNotToUseIt ==
    /\ pagePc = "built"
    /\ page' = insertWhenNotToUseIt(page)
    /\ pagePc' = "done"
    /\ UNCHANGED <<original, simplifierVars, enforcerVars, otherVars, docsVars,
                   examplesVars>>

NextPage == InsertWhenNotToUseIt

SpecPage == InitPage /\ [][NextPage]_vars

\* =================================================== properties, rule A
\* the visitor has run over the node of the state
visited == pc \in {"reported", "fixed"}

untagged == node.parent.type # "TaggedTemplateExpression"

\* two empty quasis around one expression
singleSlotBetweenEmptyQuasis ==
    /\ Len(node.quasis) = 2
    /\ Len(node.expressions) = 1
    /\ node.quasis[1].value.raw = <<>>
    /\ node.quasis[2].value.raw = <<>>

\* C1: a template literal whose parent is a tagged template expression gets
\* no report and no fix edit, whatever its quasis and expressions are; the
\* text of the file is left as it was.
C1_TaggedNeverReported ==
    (visited /\ ~untagged) =>
        /\ reports = <<>>
        /\ allEdits(reports) = <<>>
        /\ pc = "fixed" => chars(output) = sourceText

C1_Witness ==
    /\ pc = "fixed"
    /\ ~untagged
    /\ Len(node.expressions) = 2
    /\ \E i \in 1..2 : isFixableExpression(node.expressions[i])
    /\ \E i \in 1..2 : isUnderlyingTypeString(node.expressions[i])

\* C2: an untagged template literal with two empty quasis and one
\* string-like expression gets exactly one report, whose fix is the two
\* removals [template start, expression start) and [expression end,
\* template end); applying it leaves the expression's source text alone.
C2_SingleStringVariableFix ==
    (visited /\ untagged /\ singleSlotBetweenEmptyQuasis
        /\ isUnderlyingTypeString(node.expressions[1])) =>
        /\ Len(reports) = 1
        /\ reports[1].fix =
               <<removeRange(<<node.range[1], node.expressions[1].range[1]>>),
                 removeRange(<<node.expressions[1].range[2], node.range[2]>>)>>
        /\ pc = "fixed" =>
               chars(output) = <<sourceText[1]>> \o
                   SubSeq(sourceText, node.expressions[1].range[1] + 1,
                          node.expressions[1].range[2])

C2_Witness ==
    /\ pc = "fixed"
    /\ untagged
    /\ singleSlotBetweenEmptyQuasis
    /\ isTemplateLiteral(node.expressions[1])
    /\ Len(node.expressions[1].quasis) = 2
    /\ node.expressions[1].range[1] > node.range[1] + 3

\* the string-likeness the type adapter is specified to compute
stringLikeMembers(type) ==
    {i \in 1..Len(type.types) : type.types[i].flags \cap StringLike # {}}

specifiedStringLike(type) ==
    CASE type.kind = "union" ->
             Cardinality(stringLikeMembers(type)) = Len(type.types)
      [] type.kind = "intersection" ->
             Cardinality(stringLikeMembers(type)) >= 1
      [] OTHER -> type.flags \cap StringLike # {}

\* the report of the special case starts its first removal at the template
\* literal's first character
isSpecialCaseReport(r) ==
    /\ Len(r.fix) = 2
    /\ r.fix[1].range[1] = node.range[1]
    /\ r.fix[2].range[2] = node.range[2]

\* C3: the single expression between two empty quasis gets the special-case
\* fix iff its type is string-like, which for a union means every member,
\* for an intersection at least one member, and otherwise the type itself;
\* so string | number gets none and string & Branded gets one.
C3_UnionEveryIntersectionSome ==
    (visited /\ untagged /\ singleSlotBetweenEmptyQuasis) =>
        /\ (\E k \in 1..Len(reports) : isSpecialCaseReport(reports[k]))
               <=> specifiedStringLike(node.expressions[1].tsType)
        /\ isUnderlyingTypeString(node.expressions[1])
               <=> specifiedStringLike(node.expressions[1].tsType)
        /\ node.expressions[1].tsType \in {TStringOrNumber, TNumberOrString}
               => reports = <<>>
        /\ node.expressions[1].tsType \in {TBrandedString, TStringBranded}
               => Len(reports) = 1 /\ isSpecialCaseReport(reports[1])

C3_Witness ==
    /\ pc = "reported"
    /\ untagged
    /\ singleSlotBetweenEmptyQuasis
    /\ node.expressions[1].tsType = TStringBranded
    /\ Len(reports) = 1

\* C4: the edit ranges proposed for one template literal, within a report
\* and across its reports, are well-formed half-open ranges inside the
\* template literal, no two of them overlap, and no two edits put text in
\* at the same offset, so the order of application does not matter.
C4_EditsPairwiseDisjoint ==
    (visited /\ untagged) =>
        LET edits == allEdits(reports)
        IN  /\ \A k \in 1..Len(edits) :
                   /\ node.range[1] <= edits[k].range[1]
                   /\ edits[k].range[1] <= edits[k].range[2]
                   /\ edits[k].range[2] <= node.range[2]
            /\ \A k, l \in 1..Len(edits) :
                   k # l =>
                       /\ ~overlap(edits[k], edits[l])
                       /\ ~(/\ edits[k].range[1] = edits[l].range[1]
                            /\ edits[k].text # <<>>
                            /\ edits[l].text # <<>>)

C4_Witness ==
    /\ pc = "reported"
    /\ untagged
    /\ Len(reports) = 2
    /\ node.quasis[2].value.raw = <<>>
    /\ isLiteral(node.expressions[1])
    /\ isTemplateLiteral(node.expressions[2])
    /\ node.quasis[1].value.raw = <<DOLLAR>>

\* no backtick and no `${` of the text is preceded by an even number of
\* backslashes
noUnescapedDelimiter(text) ==
    \A p \in 1..Len(text) :
        backslashesBefore(text, p) % 2 = 0 =>
            /\ text[p] # BT
            /\ ~(text[p] = DOLLAR /\ p < Len(text) /\ text[p + 1] = LBRACE)

\* the text a report's fix puts in place of the reported expression
inlinedText(r) ==
    LET k == CHOOSE k \in 1..Len(r.fix) : r.fix[k].range = r.node.range
    IN  r.fix[k].text

isGeneralLiteralReport(r) ==
    /\ isLiteral(r.node)
    /\ ~isSpecialCaseReport(r)
    /\ \E k \in 1..Len(r.fix) : r.fix[k].range = r.node.range

\* C5: the text inlined for a literal slot has no backtick and no `${`
\* preceded by an even number of backslashes, and a string literal whose
\* text has no such occurrence is inlined as it is written (but for the
\* backslash that protects a trailing `$`): nothing is escaped twice.
C5_InlinedLiteralEscapedOnce ==
    (visited /\ untagged) =>
        \A k \in 1..Len(reports) :
            isGeneralLiteralReport(reports[k]) =>
                LET e == reports[k].node
                    written == slice(e.src, 1, Len(e.src) - 1)
                IN  /\ noUnescapedDelimiter(inlinedText(reports[k]))
                    /\ (e.valueType = "string" /\ noUnescapedDelimiter(written)) =>
                           inlinedText(reports[k])
                               \in {written, escapeTrailingDollar(written)}

\* C6: in the text left by the fixes of one template literal, no `$`
\* preceded by an even number of backslashes is followed by a `{` that
\* came from another piece of the template: no interpolation is created.
C6_NoInterpolationCreated ==
    pc = "fixed" =>
        LET text == chars(output)
        IN  \A j \in 1..(Len(output) - 1) :
                ~(/\ text[j] = DOLLAR
                  /\ text[j + 1] = LBRACE
                  /\ backslashesBefore(text, j) % 2 = 0
                  /\ output[j].from # output[j + 1].from)

\* the extent of slot i of a template literal: from its `${` to its `}`
slotExtent(template, i) ==
    <<template.quasis[i].range[2] - 2, template.quasis[i + 1].range[1] + 1>>

\* C7: the fixes applied and the rule run again over the fixed text, no
\* report of the second pass is for a slot that holds text of a slot the
\* first pass reported and fixed.
C7_RelintReportsNothingFixed ==
    (relinting /\ pc = "reported") =>
        \A k \in 1..Len(reports) :
            LET extent == slotExtent(node, indexOf(node.expressions, reports[k].node))
            IN  \A j \in (extent[1] + 1)..extent[2] :
                    output[j].from \notin fixedPieces

\* =================================================== properties, rule B
\* the function was exempted from the check by the options
exempted(opts, fn) ==
    \/ /\ opts.allowConciseArrowFunctionExpressionsStartingWithVoid
       /\ fn.type = "ArrowFunctionExpression"
       /\ fn.voidBody
    \/ opts.allowIIFEs /\ fn.parent.type = "CallExpression"
    \/ includes(opts.allowedNames, fn.idName)
    \/ opts.allowTypedFunctionExpressions /\ (fn.validReturnType \/ fn.returnType)

\* C8: an exit event that fires while the function-info stack is empty
\* makes the handler throw: nothing is handed to checkFunctionReturnType,
\* nothing is reported, and the traversal does not go on, also when the
\* exited function is one the options exempt.
C8_ExitOnEmptyStackThrows ==
    (lastExit # <<>> /\ lastExit[1].depth = 0) =>
        /\ phase = "thrown"
        /\ lastExit[1].outcome.threw
        /\ lastExit[1].outcome.checked = <<>>
        /\ lastExit[1].outcome.reported = <<>>
        /\ functionInfoStack = <<>>

C8_Witness ==
    /\ phase = "thrown"
    /\ lastExit[1].depth = 0
    /\ exempted(options, lastExit[1].node)
    /\ lastExit[1].node.id = 1
    /\ entered = 2

\* C9: under well-nested events the stack holds one frame per open
\* function, innermost last; an exit pops the frame of the function that is
\* exited, exempted or not; nothing throws; the stack is empty when the
\* traversal ends.
C9_StackIsLifoOfOpenFunctions ==
    wellNested =>
        /\ phase # "thrown"
        /\ Len(functionInfoStack) = Len(open)
        /\ \A i \in 1..Len(open) : functionInfoStack[i].node = open[i]
        /\ lastExit # <<>> =>
               /\ Len(lastExit[1].outcome.popped) = 1
               /\ lastExit[1].outcome.popped[1].node = lastExit[1].node
               /\ Len(lastExit[1].outcome.stack) = lastExit[1].depth - 1
        /\ phase = "ended" => functionInfoStack = <<>>

C9_Witness ==
    /\ wellNested
    /\ phase = "ended"
    /\ entered = 2
    /\ Len(checked) = 1
    /\ Len(missingReturnType) = 1
    /\ exempted(options, lastExit[1].node)
    /\ lastExit[1].depth = 1

\* the return statements the host visited with the function of this id as
\* the innermost open function, in the order visited
returnsOf(id) ==
    LET mine == SelectSeq(enclosing, LAMBDA e : e.fn = id)
    IN  [k \in 1..Len(mine) |-> mine[k].ret]

\* C10: a return statement is recorded in the frame of its innermost
\* enclosing function and in no other frame: each frame, on the stack or
\* handed to checkFunctionReturnType, lists exactly the return statements
\* whose innermost enclosing function is its function, in order.
C10_ReturnsOfInnermostFunction ==
    wellNested =>
        /\ \A i \in 1..Len(functionInfoStack) :
               functionInfoStack[i].returns = returnsOf(functionInfoStack[i].node.id)
        /\ \A k \in 1..Len(checked) :
               checked[k].returns = returnsOf(checked[k].node.id)
        /\ lastExit # <<>> =>
               \A k \in 1..Len(lastExit[1].outcome.popped) :
                   lastExit[1].outcome.popped[k].returns
                       = returnsOf(lastExit[1].node.id)

C10_Witness ==
    /\ wellNested
    /\ Len(checked) = 2
    /\ checked[1].node.id = 2
    /\ checked[2].node.id = 1
    /\ Len(checked[1].returns) = 1
    /\ Len(checked[2].returns) = 1
    /\ enclosing[1].fn = 2

\* the last exit event was that of an immediately-invoked function
\* expression without a return type annotation, in a traversal whose exit
\* events all had their enter event
lastExitOfIIFE ==
    /\ wellNested
    /\ lastExit # <<>>
    /\ ~lastExit[1].outcome.threw
    /\ lastExit[1].node.type \in {"ArrowFunctionExpression", "FunctionExpression"}
    /\ lastExit[1].node.parent.type = "CallExpression"
    /\ lastExit[1].node.parent.isCallee
    /\ ~lastExit[1].node.returnType

\* every return statement collected for the exited function, and there is
\* one, yields a function
lastExitReturnsFunction ==
    LET returns == lastExit[1].outcome.popped[1].returns
    IN  /\ returns # <<>>
        /\ \A i \in 1..Len(returns) : returns[i].yieldsFunction

RECURSIVE replay(_, _, _, _)
replay(log, k, stack, reported) ==
    IF k > Len(log)
    THEN [stack |-> stack, reported |-> reported]
    ELSE IF log[k].kind = "enter"
    THEN replay(log, k + 1, enterFunction(stack, log[k].fn), reported)
    ELSE IF log[k].kind = "return"
    THEN replay(log, k + 1, ReturnStatement(stack, log[k].ret), reported)
    ELSE LET outcome ==
                 IF log[k].fn.type = "FunctionDeclaration"
                 THEN exitFunctionDeclaration(stack, options, log[k].fn)
                 ELSE exitFunctionExpression(stack, options, log[k].fn)
         IN  replay(log, k + 1, outcome.stack, reported \o outcome.reported)

\* C12: two visitor maps from two calls of create work on separate stacks:
\* whatever the interleaving of the events of two files, the stack and the
\* reports of the second file are those of its own events alone, and the
\* stack of the first file holds the frames of its own open functions with
\* its own return statements, its reports being the nodes of its own file.
C12_StateIsolatedPerCreate ==
    /\ otherStack = replay(otherLog, 1, <<>>, <<>>).stack
    /\ otherReports = replay(otherLog, 1, <<>>, <<>>).reported
    /\ wellNested =>
           /\ phase # "thrown"
           /\ Len(functionInfoStack) = Len(open)
           /\ \A i \in 1..Len(open) :
                  /\ functionInfoStack[i].node = open[i]
                  /\ functionInfoStack[i].returns = returnsOf(open[i].id)
           /\ \A k \in 1..Len(checked) :
                  checked[k].returns = returnsOf(checked[k].node.id)
    /\ \A k \in 1..Len(missingReturnType) : missingReturnType[k].id <= MaxFunctions
    /\ \A k \in 1..Len(otherReports) : otherReports[k].id > MaxFunctions

C12_Witness ==
    /\ Len(otherLog) = 2
    /\ Len(otherStack) = 1
    /\ Len(otherStack[1].returns) = 1
    /\ Len(functionInfoStack) = 1
    /\ Len(functionInfoStack[1].returns) = 1
    /\ otherLog[1].fn.type # functionInfoStack[1].node.type

\* =================================================== properties, rule A
\* the expressions the general case is specified to report
specifiedFixable(e) ==
    \/ e.type \in {"Literal", "TemplateLiteral"}
    \/ e.type = "Identifier" /\ e.name \in {NameUndefined, NameInfinity, NameNaN}

\* the visitor ran over an untagged template literal to which the special
\* case does not apply
generalCase ==
    /\ visited
    /\ untagged
    /\ ~(singleSlotBetweenEmptyQuasis
           /\ specifiedStringLike(node.expressions[1].tsType))

\* C13: in the general case every slot holding a Literal, a TemplateLiteral
\* or the identifier undefined, Infinity or NaN gets exactly one report,
\* targeted at its expression, and no other slot gets a report; a template
\* with no such slot gets none.
C13_OneReportPerFixableSlot ==
    generalCase =>
        /\ \A i \in 1..Len(node.expressions) :
               Cardinality({k \in 1..Len(reports) :
                               reports[k].node = node.expressions[i]})
                   = IF specifiedFixable(node.expressions[i]) THEN 1 ELSE 0
        /\ \A k \in 1..Len(reports) :
               \E i \in 1..Len(node.expressions) :
                   reports[k].node = node.expressions[i]
        /\ (\A i \in 1..Len(node.expressions) :
                ~specifiedFixable(node.expressions[i])) => reports = <<>>

C13_Witness ==
    /\ generalCase
    /\ pc = "reported"
    /\ Len(node.expressions) = 2
    /\ node.expressions[1].type = "Identifier"
    /\ node.expressions[1].name = NameNaN
    /\ ~specifiedFixable(node.expressions[2])
    /\ Len(reports) = 1
    /\ reports[1].node = node.expressions[1]

\* ================================================ properties, docs tests
\* the texts of the headings of the doc, in order
headingTexts ==
    LET headings == SelectSeq(tokens, tokenIsHeading)
    IN  [i \in 1..Len(headings) |-> headings[i].text]

\* the top-level properties of the object-typed items of the schema
schemaProperties ==
    UNION {{schema[i].properties[k] : k \in 1..Len(schema[i].properties)} :
               i \in {j \in 1..Len(schema) : schema[j].type = "object"}}

hasOptionsHeading == \E i \in 1..Len(headingTexts) : headingTexts[i] = OptionsText

\* the property occurs, in backticks, in a heading at or after the first
\* 'Options' heading
mentionedFromOptionsOn(property) ==
    \E i \in 1..Len(headingTexts) :
        /\ \E j \in 1..i : headingTexts[j] = OptionsText
        /\ includesText(headingTexts[i], <<BT>> \o property \o <<BT>>)

\* C14: the test passes only if every top-level property of every
\* object-typed schema item occurs in backticks in a heading at or after
\* the 'Options' heading; a doc that has properties to document and no
\* 'Options' heading makes it throw.
C14_OptionsMentionedFromOptionsHeadingOn ==
    optionsTest # "pending" =>
        /\ optionsTest = "passed" =>
               \A property \in schemaProperties : mentionedFromOptionsOn(property)
        /\ (schemaProperties # {} /\ ~hasOptionsHeading) => optionsTest = "threw"

\* the token of the last iteration is a ts or tsx code block
lastTokenIsTsCode ==
    /\ lastVisit # <<>>
    /\ lastVisit[1].token.type = "code"
    /\ lastVisit[1].token.lang # NoLang
    /\ Head(trim(lastVisit[1].token.lang)) \in {"ts", "tsx"}

\* the heading that opened the tab section the loop is in starts with mark
underTabHeadingStarting(mark) ==
    /\ currentContext.type = "under-tab-heading"
    /\ tabHeading # <<>>
    /\ startsWithText(trim(tabHeading[1].text), mark)

\* C15: in the loop of 'code examples ESLint output' a ts/tsx code block
\* is linted iff the context at its token is under-tab-heading or its
\* language string contains showPlaygroundButton, and nothing else is
\* linted; a linted block under a tab heading starting with the cross
\* mark and Incorrect must have at least one message, one under a tab
\* heading starting with the check mark and Correct must have none, and
\* any other block has no requirement on its messages.
C15_LintedBlocksAndTheirRequirement ==
    lastVisit # <<>> =>
        LET token == lastVisit[1].token
            required ==
                IF ~lastVisit[1].linted
                THEN "any"
                ELSE IF underTabHeadingStarting(<<CrossMark, " ", "Incorrect">>)
                THEN "some"
                ELSE IF underTabHeadingStarting(<<CheckMark, " ", "Correct">>)
                THEN "none"
                ELSE "any"
        IN  /\ lastVisit[1].linted <=>
                   /\ lastTokenIsTsCode
                   /\ \/ currentContext.type = "under-tab-heading"
                      \/ includesText(token.lang, PlaygroundButton)
            /\ lastVisit[1].expected = required
            /\ examplesTest = "failed" <=>
                   \/ required = "some" /\ token.messages = 0
                   \/ required = "none" /\ token.messages # 0

C15_Witness ==
    /\ lastVisit # <<>>
    /\ lastVisit[1].linted
    /\ ~includesText(lastVisit[1].token.lang, PlaygroundButton)
    /\ lastVisit[1].expected = "some"
    /\ lastVisit[1].token.messages = 1
    /\ examplesTest = "running"
    /\ tabHeading # <<>>
    /\ Head(tabHeading[1].text) = " "

\* =================================================== properties, rule A
\* the slot (1-based) a report of the visited template is for
slotOf(r) == indexOf(node.expressions, r.node)

\* C16: in the general case the reports of one template literal are issued
\* from the rightmost fixable slot to the leftmost: a report issued earlier
\* is for a slot further right.
C16_ReportsInReverseSourceOrder ==
    generalCase =>
        \A k, l \in 1..Len(reports) :
            k < l => slotOf(reports[k]) > slotOf(reports[l])

\* the 1-based place in the fixed text of the first character that follows
\* slot i: the one after the last character that came from the pieces up
\* to slot i (after the opening backtick, when none did)
followingPlace(i) ==
    LET upTo == {j \in 1..Len(output) : output[j].from \in 1..(2 * i)}
    IN  (IF upTo = {}
         THEN node.range[1] + 1
         ELSE CHOOSE j \in upTo : \A l \in upTo : l <= j) + 1

\* C17: when the visitor decides the escaping of the trailing `$` of a
\* slot, nextCharacterIsOpeningCurlyBrace is true iff the character that
\* follows the slot in the fully fixed template text is `{`.
C17_FlagTellsFollowingCharacter ==
    (pc = "fixed" /\ untagged) =>
        \A k \in 1..Len(decisions) :
            decisions[k].flag <=>
                output[followingPlace(decisions[k].slot)].ch = LBRACE

\* the inlined value of a literal or nested template slot begins with `{`
inlinedBeginsWithBrace(e) ==
    \/ isLiteral(e) /\ startsWith(e.strValue, LBRACE)
    \/ isTemplateLiteral(e) /\ startsWith(e.quasis[1], LBRACE)

\* the extent of the text of a quasi, without its delimiters
rawExtent(quasi) ==
    [range |-> <<quasi.range[1] + 1,
                 quasi.range[2] - (IF quasi.tail THEN 1 ELSE 2)>>]

touches(edit, quasi) ==
    \/ overlap(edit, rawExtent(quasi))
    \/ /\ edit.range[1] = edit.range[2]
       /\ rawExtent(quasi).range[1] < edit.range[1]
       /\ edit.range[1] < rawExtent(quasi).range[2]

\* the edit that replaces the last character of the text of a quasi that
\* precedes a slot by backslash-`$`
isTrailingDollarPatch(edit, quasi) ==
    /\ edit.range = <<quasi.range[2] - 3, quasi.range[2] - 2>>
    /\ edit.text = <<BS, DOLLAR>>

\* C18: in the general case, the fix of a slot whose preceding quasi ends
\* in a `$` preceded by an even number of backslashes and whose inlined
\* value begins with `{` has exactly one edit on the text of that quasi,
\* the replacement of that `$` by backslash-`$`; the fix of any other slot
\* has no edit touching the text of its preceding quasi.
C18_PrecedingQuasiPatched ==
    (generalCase /\ pc = "reported") =>
        \A k \in 1..Len(reports) :
            LET r == reports[k]
                prevQuasi == node.quasis[slotOf(r)]
                onPrev == {j \in 1..Len(r.fix) : touches(r.fix[j], prevQuasi)}
            IN  IF /\ endsWithEscapedDollarSign(prevQuasi.value.raw)
                   /\ inlinedBeginsWithBrace(r.node)
                THEN /\ Cardinality(onPrev) = 1
                     /\ \A j \in onPrev : isTrailingDollarPatch(r.fix[j], prevQuasi)
                ELSE onPrev = {}

\* the elements of a sequence, as a set
elements(seq) == {seq[j] : j \in 1..Len(seq)}

within(edit, extent) ==
    extent[1] <= edit.range[1] /\ edit.range[2] <= extent[2]

\* the edits C19 specifies for the nested template of slot i: the slot's
\* `${` and `}` (each with the whitespace written inside the slot) and the
\* two backticks removed, and a backslash put before the last character of
\* the nested template when protect holds
nestedTemplateEdits(i, protect) ==
    LET e == node.expressions[i]
        extent == slotExtent(node, i)
    IN  {removeRange(<<extent[1], e.range[1]>>),
         removeRange(<<e.range[1], e.range[1] + 1>>),
         removeRange(<<e.range[2] - 1, e.range[2]>>),
         removeRange(<<e.range[2], extent[2]>>)}
        \cup (IF protect
              THEN {replaceTextRange(<<e.range[2] - 2, e.range[2] - 2>>, <<BS>>)}
              ELSE {})

\* C19: in the general case the fix of a nested template slot removes, within
\* the slot, exactly the slot's `${`, the two backticks of the nested
\* template and the slot's `}`, each once, and puts one backslash before
\* the last `$` of the nested template exactly when its last quasi ends in a
\* `$` preceded by an even number of backslashes and the character that
\* follows the slot in the fixed text is `{`.
C19_NestedTemplateUnwrapped ==
    (generalCase /\ pc = "fixed") =>
        \A k \in 1..Len(reports) :
            isTemplateLiteral(reports[k].node) =>
                LET r == reports[k]
                    i == slotOf(r)
                    inSlot == SelectSeq(r.fix,
                                        LAMBDA edit : within(edit, slotExtent(node, i)))
                    protect ==
                        /\ endsWithEscapedDollarSign(r.node.quasis[Len(r.node.quasis)])
                        /\ output[followingPlace(i)].ch = LBRACE
                IN  /\ elements(inSlot) = nestedTemplateEdits(i, protect)
                    /\ Len(inSlot) = Cardinality(elements(inSlot))

\* the string a template text denotes when it is read back, from its
\* 1-based position p on: a backslash and the character after it stand for
\* that character (the palette has no letter or digit after a backslash)
RECURSIVE cooked(_, _)
cooked(raw, p) ==
    IF p > Len(raw)
    THEN <<>>
    ELSE IF raw[p] = BS /\ p < Len(raw)
         THEN <<raw[p + 1]>> \o cooked(raw, p + 2)
         ELSE <<raw[p]>> \o cooked(raw, p + 1)

isNonStringLiteral(e) == isLiteral(e) /\ e.valueType # "string"

\* C20: the text the fix puts in place of a non-string literal, read back
\* as template text, is String(value), every backslash of it included.
C20_NonStringLiteralDenotesItsString ==
    (generalCase /\ pc = "reported") =>
        \A k \in 1..Len(reports) :
            isNonStringLiteral(reports[k].node) =>
                \E j \in 1..Len(reports[k].fix) :
                    /\ reports[k].fix[j].range = reports[k].node.range
                    /\ cooked(reports[k].fix[j].text, 1) = reports[k].node.strValue

\* the edits of a fix come in source order, none starting before the end
\* of the one before it
sortedByStart(edits) ==
    \A j \in 2..Len(edits) : edits[j].range[1] >= edits[j - 1].range[2]

\* C21: every report of the simplifier, of the special case and of the
\* general case alike, supplies its edits sorted by start offset, each
\* starting at or after the end of the previous one.
C21_FixEditsSortedByStart ==
    visited => \A k \in 1..Len(reports) : sortedByStart(reports[k].fix)

\* C21 amended: the edits of a report never overlap; they are sorted by
\* start offset in the special case and for the slots of undefined,
\* Infinity and NaN (two removals); for a literal or nested template slot
\* the removals of the slot's `${` and `}` come first, in source order, and
\* the edits inside the slot and on the preceding quasi follow them, so
\* that sequence is not sorted.
C21_FixEditsDisjointDelimitersFirst ==
    visited =>
        \A k \in 1..Len(reports) :
            LET r == reports[k]
            IN  /\ \A i, j \in 1..Len(r.fix) :
                       i # j => ~overlap(r.fix[i], r.fix[j])
                /\ Len(r.fix) >= 2
                /\ sortedByStart(SubSeq(r.fix, 1, 2))
                /\ sortedByStart(r.fix)
                       <=> (isSpecialCaseReport(r)
                               \/ ~(isLiteral(r.node) \/ isTemplateLiteral(r.node)))

C21_Witness ==
    /\ pc = "reported"
    /\ generalCase
    /\ \E k \in 1..Len(reports) :
           /\ isLiteral(reports[k].node)
           /\ Len(reports[k].fix) = 4
           /\ ~sortedByStart(reports[k].fix)

\* the special case applies to the visited template literal
specialCase ==
    /\ visited
    /\ untagged
    /\ singleSlotBetweenEmptyQuasis
    /\ isUnderlyingTypeString(node.expressions[1])

\* C22 as stated: the report of the special case is targeted at the whole
\* template literal, not at the interpolated expression.
C22_SpecialCaseTargetsTemplate ==
    specialCase =>
        \A k \in 1..Len(reports) :
            /\ reports[k].node.type = "TemplateLiteral"
            /\ reports[k].node.range = node.range

\* C22 amended: the report of the special case is targeted at the
\* interpolated expression, which lies strictly inside the template
\* literal; it is the fix that covers the whole template literal, from its
\* first character to the expression and from the expression to its last.
C22_SpecialCaseTargetsExpression ==
    specialCase =>
        /\ Len(reports) = 1
        /\ reports[1].node = node.expressions[1]
        /\ node.range[1] < reports[1].node.range[1]
        /\ reports[1].node.range[2] < node.range[2]
        /\ reports[1].fix[1].range[1] = node.range[1]
        /\ reports[1].fix[Len(reports[1].fix)].range[2] = node.range[2]

C22_Witness ==
    /\ specialCase
    /\ pc = "reported"
    /\ node.expressions[1].type = "Identifier"
    /\ node.expressions[1].tsType = TString
    /\ Len(reports) = 1
    /\ reports[1].node.range # node.range

\* ======================================= properties, rule B: exemptions
\* the last exit event was delivered for the function that was open, in a
\* traversal whose exit events all had their enter event
lastExitWellNested ==
    /\ wellNested
    /\ lastExit # <<>>
    /\ ~lastExit[1].outcome.threw

exitedFunction == lastExit[1].node

\* the handler of the last exit event called checkFunctionReturnType
handedToCheck == lastExit[1].outcome.checked # <<>>

\* an arrow function whose expression body is a void unary expression
isConciseVoidArrow(fn) ==
    fn.type = "ArrowFunctionExpression" /\ fn.expression /\ fn.voidBody

conciseVoidApplies ==
    /\ options.allowConciseArrowFunctionExpressionsStartingWithVoid
    /\ isConciseVoidArrow(exitedFunction)

typedApplies ==
    /\ options.allowTypedFunctionExpressions
    /\ IF exitedFunction.type = "FunctionDeclaration"
       THEN exitedFunction.returnType
       ELSE exitedFunction.validReturnType \/ exitedFunction.ancestorReturnType

\* C23: on exit of a function expression or arrow function,
\* checkFunctionReturnType is called iff none of the three exemptions
\* applies (concise void arrow, allowed classification, typed function
\* expression or ancestor return type); a concise void arrow is never
\* reported when its option is enabled, whatever the other options; and for
\* a function expression, a declaration or a block-bodied arrow the option
\* changes nothing: the call depends on the other exemptions alone.
C23_ExemptionsThenCheck ==
    lastExitWellNested =>
        /\ exitedFunction.type # "FunctionDeclaration" =>
               (handedToCheck <=>
                    /\ ~conciseVoidApplies
                    /\ ~isAllowedFunction(options, exitedFunction)
                    /\ ~typedApplies)
        /\ conciseVoidApplies =>
               /\ lastExit[1].outcome.reported = <<>>
               /\ missingReturnType = <<>>
        /\ (\/ exitedFunction.type \in {"FunctionExpression", "FunctionDeclaration"}
            \/ ~exitedFunction.expression) =>
               (handedToCheck <=>
                    /\ ~isAllowedFunction(options, exitedFunction)
                    /\ ~typedApplies)

C23_Witness ==
    /\ lastExitWellNested
    /\ conciseVoidApplies
    /\ ~isAllowedFunction(options, exitedFunction)
    /\ ~options.allowTypedFunctionExpressions
    /\ ~handedToCheck
    /\ returned = 1

\* the name a function resolves to: its own id, else the identifier of an
\* enclosing declarator, else the identifier key, not computed, of an
\* enclosing property, class property or method; NoName when there is none
resolvedName(fn) ==
    IF fn.idName # NoName
    THEN fn.idName
    ELSE IF fn.parent.type = "VariableDeclarator"
    THEN fn.parent.name
    ELSE IF /\ fn.parent.type \in {"Property", "PropertyDefinition", "MethodDefinition"}
            /\ ~fn.parent.computed
    THEN fn.parent.name
    ELSE NoName

namedInAllowList ==
    /\ resolvedName(exitedFunction) # NoName
    /\ includes(options.allowedNames, resolvedName(exitedFunction))

withoutTypeParametersApplies ==
    /\ options.allowFunctionsWithoutTypeParameters
    /\ ~exitedFunction.typeParameters

isCalleeOfCall(fn) == fn.parent.type = "CallExpression" /\ fn.parent.isCallee

\* C24: with allowIIFEs enabled, a function that no other exemption covers
\* is exempted iff it is the callee of its parent call expression; a
\* function that is an argument of a call is handed to
\* checkFunctionReturnType.
C24_IIFEIsCalleeOfCall ==
    (/\ lastExitWellNested
     /\ options.allowIIFEs
     /\ ~conciseVoidApplies
     /\ ~withoutTypeParametersApplies
     /\ ~namedInAllowList
     /\ ~typedApplies) =>
        (handedToCheck <=> ~isCalleeOfCall(exitedFunction))

\* the exemptions other than the allow-list leave the exited function to
\* the allow-list
leftToAllowList ==
    /\ lastExitWellNested
    /\ ~conciseVoidApplies
    /\ ~withoutTypeParametersApplies
    /\ ~(options.allowIIFEs /\ exitedFunction.parent.type = "CallExpression")
    /\ ~typedApplies

\* C25: a function that no other exemption covers is skipped iff its
\* resolved name is in allowedNames; a computed key, a pattern, a key that
\* is no identifier or an unnamed function under any other parent has no
\* name and is checked, and an empty allowedNames exempts nothing.
C25_AllowListByResolvedName ==
    leftToAllowList =>
        /\ handedToCheck <=> ~namedInAllowList
        /\ options.allowedNames = <<>> => handedToCheck
        /\ (/\ exitedFunction.idName = NoName
            /\ \/ exitedFunction.parent.computed
               \/ exitedFunction.parent.name = NoName
               \/ exitedFunction.parent.type \notin
                      {"VariableDeclarator", "Property", "PropertyDefinition",
                       "MethodDefinition"}) => handedToCheck

C25_Witness ==
    /\ leftToAllowList
    /\ options.allowedNames = <<"foo">>
    /\ exitedFunction.parent.type = "Property"
    /\ exitedFunction.parent.name = "foo"
    /\ exitedFunction.parent.computed
    /\ handedToCheck

\* C26: with allowFunctionsWithoutTypeParameters enabled a function of any
\* of the three kinds that has no type parameters is not checked and not
\* reported, whatever allowIIFEs, allowedNames and
\* allowTypedFunctionExpressions are; with the option disabled a function
\* without type parameters that no other exemption covers is checked.
C26_WithoutTypeParametersSkipped ==
    (lastExitWellNested /\ ~exitedFunction.typeParameters) =>
        IF options.allowFunctionsWithoutTypeParameters
        THEN /\ ~handedToCheck
             /\ lastExit[1].outcome.reported = <<>>
        ELSE (/\ ~conciseVoidApplies
              /\ ~(options.allowIIFEs /\ exitedFunction.parent.type = "CallExpression")
              /\ ~namedInAllowList
              /\ ~typedApplies) => handedToCheck

C26_Witness ==
    /\ lastExitWellNested
    /\ exitedFunction.type = "FunctionDeclaration"
    /\ ~exitedFunction.typeParameters
    /\ ~exitedFunction.returnType
    /\ options.allowFunctionsWithoutTypeParameters
    /\ ~options.allowIIFEs
    /\ options.allowedNames = <<>>
    /\ ~options.allowTypedFunctionExpressions
    /\ ~handedToCheck

\* the exemptions that come before that of the typed functions leave the
\* exited function to it
leftToTyped ==
    /\ lastExitWellNested
    /\ ~conciseVoidApplies
    /\ ~isAllowedFunction(options, exitedFunction)

\* C27: with allowTypedFunctionExpressions enabled, a function expression
\* or arrow function with a valid contextual return type or an ancestor
\* that establishes one, and a declaration with its own return type
\* annotation, are skipped; with the option disabled neither skip is taken:
\* a function the earlier exemptions do not cover is handed to
\* checkFunctionReturnType.
C27_TypedFunctionsSkipped ==
    /\ (lastExitWellNested /\ typedApplies) =>
           /\ ~handedToCheck
           /\ lastExit[1].outcome.reported = <<>>
    /\ leftToTyped =>
           /\ handedToCheck <=> ~typedApplies
           /\ ~options.allowTypedFunctionExpressions => handedToCheck

C27_Witness ==
    /\ leftToTyped
    /\ ~options.allowTypedFunctionExpressions
    /\ exitedFunction.type = "FunctionDeclaration"
    /\ exitedFunction.returnType
    /\ handedToCheck

\* the return statements the host visited outside every function
outsideReturns == {enclosing[k].ret : k \in {j \in 1..Len(enclosing) : enclosing[j].fn = 0}}

\* the frames the enforcer holds or has handed over
knownFrames ==
    elements(functionInfoStack) \cup elements(checked)
        \cup (IF lastExit = <<>> THEN {} ELSE elements(lastExit[1].outcome.popped))

\* C28: a return statement visited while the function-info stack is empty
\* is ignored: the handler does not throw and leaves the stack empty, and,
\* the events being well nested, no frame of a function entered before or
\* afterwards lists a return statement that was visited outside every
\* function.
C28_ReturnOutsideFunctionsIgnored ==
    [][/\ (functionInfoStack = <<>> /\ returned' = returned + 1) =>
              /\ functionInfoStack' = <<>>
              /\ phase' = phase
              /\ UNCHANGED <<checked, missingReturnType, lastExit>>
       /\ wellNested' =>
              \A frame \in knownFrames' :
                  elements(frame.returns) \cap outsideReturns' = {}]_vars

C28_Witness ==
    /\ wellNested
    /\ Len(enclosing) = 2
    /\ enclosing[1].fn = 0
    /\ enclosing[2].fn = 1
    /\ Len(checked) = 1
    /\ Len(checked[1].returns) = 1

\* ================================================ properties, docs tests
isOpening(token) == token.type = "html" /\ isOpeningTabsComment(trim(token.text))
isClosing(token) == token.type = "html" /\ isClosingTabsComment(trim(token.text))

\* the context a heading opens
underTabHeading(token) ==
    [type |-> "under-tab-heading", headingsDepth |-> token.depth,
     sectionType |-> sectionTypeOf(trim(token.text))]

\* C29: at every token of the loop the tab context moves as follows: an
\* opening tabs comment leads to entered-tabs and a closing one to
\* outside-the-tabs, from any context; a heading met in entered-tabs, or of
\* the depth of the section in under-tab-heading, leads to
\* under-tab-heading with its depth and section type; a heading of smaller
\* depth in under-tab-heading leads to outside-the-tabs; a deeper heading
\* there, a heading in outside-the-tabs and any other token leave the
\* context as it is.  So under-tab-heading is entered only from
\* entered-tabs or kept, never at a closing comment, and entered-tabs is
\* entered only at an opening comment.
C29_TabContextTransitions ==
    [][tokenIndex' = tokenIndex + 1 =>
        LET token == lastVisit'[1].token
            before == currentContext
            after == currentContext'
            opensSection ==
                /\ token.type = "heading"
                /\ \/ before.type = "entered-tabs"
                   \/ (before.type = "under-tab-heading"
                           /\ token.depth = before.headingsDepth)
            leavesSection ==
                /\ token.type = "heading"
                /\ before.type = "under-tab-heading"
                /\ token.depth < before.headingsDepth
        IN  /\ isOpening(token) => after = [type |-> "entered-tabs"]
            /\ isClosing(token) => after = OutsideTheTabs
            /\ opensSection => after = underTabHeading(token)
            /\ leavesSection => after = OutsideTheTabs
            /\ (~isOpening(token) /\ ~isClosing(token) /\ ~opensSection
                    /\ ~leavesSection) => after = before
            /\ after.type = "under-tab-heading" =>
                   /\ before.type \in {"entered-tabs", "under-tab-heading"}
                   /\ ~isClosing(token) /\ ~isOpening(token)
            /\ after.type = "entered-tabs" =>
                   isOpening(token) \/ before.type = "entered-tabs"]_vars

C29_Witness ==
    /\ tokenIndex = 4
    /\ lastVisit # <<>>
    /\ lastVisit[1].token.type = "heading"
    /\ lastVisit[1].token.depth = 3
    /\ currentContext.type = "under-tab-heading"
    /\ currentContext.headingsDepth = 2
    /\ currentContext.sectionType = "correct"

\* ============================================ properties, docs generator
\* 0-based index of the first depth-2 heading after the 'When Not To Use
\* It' heading of the original page; the number of children when none
\* follows
endOfSection ==
    LET w == original.headingIndices.whenNotToUseIt
        later == {i \in (w + 1)..(Len(original.children) - 1) :
                     /\ original.children[i + 1].type = "heading"
                     /\ original.children[i + 1].depth = 2}
    IN  IF later = {}
        THEN Len(original.children)
        ELSE CHOOSE i \in later : \A j \in later : i <= j

\* the section has content that is no heading right after its heading
sectionHasText ==
    LET w == original.headingIndices.whenNotToUseIt
    IN  /\ w + 2 <= Len(original.children)
        /\ original.children[w + 2].type # "heading"

\* the page is the original page with one paragraph put in at the 0-based
\* index i and nothing removed
paragraphInsertedAt(i) ==
    /\ Len(page.children) = Len(original.children) + 1
    /\ SubSeq(page.children, 1, i) = SubSeq(original.children, 1, i)
    /\ page.children[i + 1].type = "paragraph"
    /\ SubSeq(page.children, i + 2, Len(page.children))
           = SubSeq(original.children, i + 1, Len(original.children))

\* C30: insertWhenNotToUseIt leaves the page of a rule that does not
\* require type checking as it is; otherwise it puts in one paragraph and
\* removes nothing, at an index after the 'When Not To Use It' heading and
\* not after the next depth-2 heading that follows it (at the end of the
\* page when none follows), and the paragraph begins with a thematic break
\* iff the section has content that is no heading right after its heading.
C30_ParagraphInsideTheSection ==
    pagePc = "done" =>
        IF ~original.rule.meta.docs.requiresTypeChecking
        THEN page = original
        ELSE \E i \in 0..Len(original.children) :
                 /\ paragraphInsertedAt(i)
                 /\ original.headingIndices.whenNotToUseIt < i
                 /\ i <= endOfSection
                 /\ (\A j \in (original.headingIndices.whenNotToUseIt + 1)
                                 ..(Len(original.children) - 1) :
                         ~(original.children[j + 1].type = "heading"
                              /\ original.children[j + 1].depth = 2))
                        => i = Len(original.children)
                 /\ (Head(page.children[i + 1].children) = "thematicBreak")
                        <=> sectionHasText

====
